---- MODULE Spec2Model ----
(***************************************************************************)
(* Model of package ipoam (github.com/mikioh/ipoam): the OAM tester, its   *)
(* cookie codec, the maintenance receiver (maint.monitor) and the tester   *)
(* facade (NewTester, Probe, Close, StartReport, StopReport, Report).      *)
(*                                                                         *)
(* The source tree holds two revisions of the tester and of the            *)
(* maintenance endpoint:                                                   *)
(*   "mutex"  : src/tester.go with src/maint.go lines 1-170                *)
(*              (sync.RWMutex around cookie and emitReport);               *)
(*   "atomic" : src/unnamed/part_000 with src/maint.go lines 171-337       *)
(*              (sync/atomic on cookie and emitReport).                    *)
(* Both use the connection endpoint of src/conn.go lines 161-384.  The     *)
(* variable rev selects the revision a behaviour runs.                     *)
(*                                                                         *)
(* A cookie is a uint64.  It is kept as its four 16-bit limbs, most        *)
(* significant first, <<bits 63..48, bits 47..32, bits 31..16, bits 15..0>>*)
(***************************************************************************)
EXTENDS Integers, Sequences, FiniteSets, TLC

VARIABLES
    rev,        \* revision of tester/maint the behaviour runs
    goos,       \* runtime.GOOS
    t,          \* the *Tester the application holds: shape, pconn, mconn
    sockOpen,   \* socket id -> TRUE while the underlying net.PacketConn is open
    cookie,     \* maint.cookie
    emitReport, \* maint.emitReport (0 or 1)
    report,     \* maint.report, the buffered channel, as a sequence
    initDone,   \* Tester.initOnce has run
    mon,        \* the maint.monitor goroutine: position, locals, Report r
    prober,     \* the application thread inside Tester.Probe
    panicked,   \* a nil dereference crashed the program
    call,       \* the latest call of a constructor or pure function: inputs, results
    lbt         \* a run of Loopback.Run: position, loopbackTest fields, clock

vars == <<rev, goos, t, sockOpen, cookie, emitReport, report, initDone, mon,
          prober, panicked, call, lbt>>

(* No call made yet, no loopback test running *)
NoCall == [op |-> "none"]
NoLoopback == [pc |-> "off"]

Nil == "nil"

-----------------------------------------------------------------------------
(* Protocol numbers, src/conn.go:177-184 *)
ianaProtocolICMP == 1
ianaProtocolUDP == 17
ianaProtocolIPv6ICMP == 58
ianaProtocolIPv6Frag == 44

(* Word sizes of the cookie layout, src/maint.go:196-202 *)
Mask16 == 65536
Mask8 == 256

-----------------------------------------------------------------------------
(* Cookie codec, src/maint.go:188-202 *)

ZeroCookie == <<0, 0, 0, 0>>

icmpCookie_noproto(protocol, id, seq) == <<id % Mask16, seq % Mask16, 0, 0>>

icmpCookie_noseq(protocol, id, seq) == <<id % Mask16, 0, 0, protocol % Mask8>>

icmpCookie_nomask(protocol, id, seq) == <<id, seq % Mask16, 0, protocol % Mask8>>

icmpCookie(protocol, id, seq) == <<id % Mask16, seq % Mask16, 0, protocol % Mask8>>

udpCookie_swapped(protocol, sport, dport) ==
    <<dport % Mask16, sport % Mask16, 0, protocol % Mask8>>

udpCookie(protocol, sport, dport) == <<sport % Mask16, dport % Mask16, 0, protocol % Mask8>>

icmpID(c) == c[1]
icmpSeq(c) == c[2]
udpSport(c) == c[1]
udpDport(c) == c[2]
protocol(c) == c[4] % Mask8

-----------------------------------------------------------------------------
(* Bounds of the explored environment *)

MaxSeq == 2             \* probes carry Seq 1..MaxSeq
Pid == 1                \* os.Getpid() & 0xffff, the Echo identifier probes use
LocalPort == 40000      \* port the OS binds a datagram endpoint to
DefaultPort == 33434    \* ControlMessage default Port, part_000:80
ReportCap == 1          \* make(chan Report, 1), part_000:139

Revisions == {"mutex", "atomic"}
Platforms == {"linux", "darwin"}
Networks == {"ip4:icmp", "ip4:1", "ip6:ipv6-icmp", "ip6:58", "udp", "udp4", "udp6"}
ProbeNetworks == {"ip4:icmp", "ip6:ipv6-icmp", "udp4"}

-----------------------------------------------------------------------------
(* Connection endpoints, src/conn.go:186-384 *)

(* newICMPConn: protocol by address family; the raw listener is tried      *)
(* first and the datagram-oriented ICMP listener is the fallback.          *)
newICMPConn(fam, rawOK, sock) ==
    [sock |-> sock,
     protocol |-> IF fam = 4 THEN ianaProtocolICMP ELSE ianaProtocolIPv6ICMP,
     listener |-> IF rawOK THEN "ip" ELSE "udp",
     fam |-> fam]

newUDPConn(fam, sock) ==
    [sock |-> sock, protocol |-> ianaProtocolUDP, listener |-> "udp", fam |-> fam]

(* conn.setup: rawSocket from the type of the local address, sport from a  *)
(* UDP local address, and the per-family helpers r4, p4, p6.               *)
setup(c, maint) ==
    LET raw == c.listener = "ip"
    IN [sock |-> c.sock,
        protocol |-> c.protocol,
        rawSocket |-> raw,
        fam |-> c.fam,
        sport |-> IF raw THEN 0 ELSE LocalPort,
        r4 |-> raw /\ c.protocol = ianaProtocolICMP /\ maint,
        p4 |-> IF raw THEN c.protocol = ianaProtocolICMP /\ ~maint
                      ELSE c.fam = 4,
        p6 |-> IF raw THEN c.protocol = ianaProtocolIPv6ICMP
                      ELSE c.fam = 6]

newProbeConn(network, fam, rawOK) ==
    IF network \in {"ip4:icmp", "ip4:1", "ip6:ipv6-icmp", "ip6:58"}
    THEN setup(newICMPConn(fam, rawOK, 1), FALSE)
    ELSE setup(newUDPConn(fam, 1), FALSE)

newMaintConn(fam, rawOK) == setup(newICMPConn(fam, rawOK, 2), TRUE)

(* Address families a listen on the network can give.  newICMPConn takes   *)
(* the family from the address (conn.go:359-366) and from the network name *)
(* only when the address is empty (349-356), so each ICMP network can give *)
(* either; net.ListenPacket binds "udp4" to IPv4 and "udp6" to IPv6.       *)
FamiliesOf(network) ==
    CASE network = "udp4" -> {4}
      [] network = "udp6" -> {6}
      [] OTHER -> {4, 6}

-----------------------------------------------------------------------------
(* NewTester, src/unnamed/part_000:138-221 and src/tester.go:133-194 *)

MaintOfAtomic(network, p, rawOK) ==
    CASE network \in {"ip4:icmp", "ip4:1"} ->
            IF p.p4 THEN p ELSE newMaintConn(p.fam, rawOK)
      [] network \in {"ip6:ipv6-icmp", "ip6:58"} -> p
      [] OTHER -> newMaintConn(p.fam, rawOK)

MaintOfMutex(network, p, rawOK) ==
    CASE network \in {"ip4:icmp", "ip4:1"} -> newMaintConn(p.fam, rawOK)
      [] network \in {"ip6:ipv6-icmp", "ip6:58"} -> p
      [] OTHER -> newMaintConn(p.fam, rawOK)

NewTester(revision, network, fam, rawOK) ==
    LET p == newProbeConn(network, fam, rawOK)
    IN [shape |-> "full",
        pconn |-> p,
        mconn |-> IF revision = "atomic" THEN MaintOfAtomic(network, p, rawOK)
                                         ELSE MaintOfMutex(network, p, rawOK)]

(* emitReport as NewTester sets it: part_000:139 (1), tester.go:134 (true) *)
InitialEmit_off == 1 - 1

InitialEmit == 1

(* A nil *Tester and a zero-value Tester{}, which Close must survive. *)
NilConn == [sock |-> 0]
NilTester == [shape |-> "nil", pconn |-> NilConn, mconn |-> NilConn]
ZeroTester == [shape |-> "zero", pconn |-> NilConn, mconn |-> NilConn]

Socks == {1, 2}


-----------------------------------------------------------------------------
(* Packets the maintenance socket delivers: what conn.readFrom returns and *)
(* what icmp.ParseMessage and parseICMPError make of it.                   *)
(*   readerr_temp   read error, net.Error with Timeout() or Temporary()    *)
(*   readerr_fatal  any other read error                                   *)
(*   badicmp        icmp.ParseMessage fails                                *)
(*   echoreply      Echo Reply, x = ID, y = Seq                            *)
(*   err_trunc      ICMP error, parseICMPError fails (too short)           *)
(*   err_icmp_echo  ICMP error quoting an ICMP Echo, x = ID, y = Seq       *)
(*   err_icmp_other ICMP error quoting an ICMP message that is no Echo     *)
(*   err_icmp_bad   ICMP error quoting ICMP bytes that do not parse        *)
(*   err_udp        ICMP error quoting UDP, x = source, y = destination    *)
(*   err_frag       ICMP error quoting another protocol (IPv6 fragment)    *)

Pkt(kind, x, y) == [kind |-> kind, x |-> x, y |-> y]
NoPkt == Pkt("none", 0, 0)

ProbeSeqs == 1..MaxSeq
PortOf(seq) == DefaultPort + seq - 1

EchoPairs == {<<0, 0>>} \cup {<<Pid, s>> : s \in ProbeSeqs}
PortPairs == {<<LocalPort, PortOf(s)>> : s \in ProbeSeqs} \cup {<<LocalPort + 1, DefaultPort>>}

Packets ==
    {Pkt(k, 0, 0) : k \in {"readerr_temp", "readerr_fatal", "badicmp", "err_trunc",
                           "err_icmp_other", "err_icmp_bad", "err_frag"}}
    \cup {Pkt("echoreply", p[1], p[2]) : p \in EchoPairs}
    \cup {Pkt("err_icmp_echo", p[1], p[2]) : p \in EchoPairs}
    \cup {Pkt("err_udp", p[1], p[2]) : p \in PortPairs}

ReadErrors == {"readerr_temp", "readerr_fatal"}
ErrorKinds == {"err_trunc", "err_icmp_echo", "err_icmp_other", "err_icmp_bad",
               "err_udp", "err_frag"}

(* Probe options the application passes, src/unnamed/part_000:21-25 *)
ControlMessages == {[ID |-> Pid, Seq |-> s, Port |-> PortOf(s)] : s \in ProbeSeqs}
Payload == <<72, 73>>

(* The callers number their probes: cm.Seq++ and back to 1 after the last, *)
(* src/cmd/ipoam/discovery.go:196-199                                      *)
NextSeq(s) == (s % MaxSeq) + 1
NoCM == [ID |-> 0, Seq |-> 0, Port |-> 0]
NoWire == [type |-> "none"]

-----------------------------------------------------------------------------
(* Report, src/report.go:17-34, reduced to the fields the receiver's       *)
(* control flow decides, each by whether and how it is set: Error (nil or *)
(* an error), ICMP (nil, Echo Reply, ICMP error), OrigHeader and           *)
(* OrigPayload (nil or set).                                               *)
ZeroReport == [Error |-> Nil, ICMP |-> Nil, OrigHeader |-> Nil, OrigPayload |-> Nil]

(* parseOrigIP over the header parseICMPError returned, report.go:75-83 *)
parseOrigIP(iph) == iph.Protocol

(* The IP header an ICMP error of the given kind quotes *)
QuotedHeader(c, kind) ==
    [Protocol |-> CASE kind \in {"err_icmp_echo", "err_icmp_other", "err_icmp_bad"} -> c.protocol
                    [] kind = "err_udp" -> ianaProtocolUDP
                    [] OTHER -> ianaProtocolIPv6Frag]

-----------------------------------------------------------------------------
(* The receiver's match rules, src/maint.go:274-312 (and 104-140) *)

LinuxDatagram(c, os) == os = "linux" /\ ~c.rawSocket

EchoReplyAccepted_anyseq(c, os, pkt, mcookie) ==
    icmpID(icmpCookie(c.protocol, pkt.x, pkt.y)) = icmpID(mcookie)
        \/ LinuxDatagram(c, os)

(* maint.go:275-276 *)
EchoReplyAccepted(c, os, pkt, mcookie) ==
    icmpCookie(c.protocol, pkt.x, pkt.y) = mcookie \/ LinuxDatagram(c, os)

InnerICMPAccepted_norelax(c, os, pkt, mcookie) ==
    pkt.kind = "err_icmp_echo" /\ icmpCookie(c.protocol, pkt.x, pkt.y) = mcookie

InnerICMPAccepted_wildcard(c, os, pkt, mcookie) ==
    pkt.kind # "err_icmp_echo" \/ icmpCookie(c.protocol, pkt.x, pkt.y) = mcookie
        \/ LinuxDatagram(c, os)

(* maint.go:297-301 *)
InnerICMPAccepted(c, os, pkt, mcookie) ==
    LET ck == IF pkt.kind = "err_icmp_echo"
              THEN icmpCookie(c.protocol, pkt.x, pkt.y) ELSE ZeroCookie
    IN ck = mcookie \/ LinuxDatagram(c, os)

InnerUDPAccepted_anydport(pkt, mcookie) ==
    udpSport(udpCookie(ianaProtocolUDP, pkt.x, pkt.y)) = udpSport(mcookie)

(* maint.go:305-307 *)
InnerUDPAccepted(pkt, mcookie) == udpCookie(ianaProtocolUDP, pkt.x, pkt.y) = mcookie

(* maint.go:310-311; the mutex revision has no default case (119-140) *)
DefaultAccepted(revision) == revision = "atomic"

(* switch parseOrigIP(r.OrigHeader), maint.go:289-312 *)
ErrorAccepted(c, os, revision, pkt, iph, ck) ==
    CASE parseOrigIP(iph) \in {ianaProtocolICMP, ianaProtocolIPv6ICMP} ->
            InnerICMPAccepted(c, os, pkt, ck)
      [] parseOrigIP(iph) = ianaProtocolUDP -> InnerUDPAccepted(pkt, ck)
      [] OTHER -> DefaultAccepted(revision)

-----------------------------------------------------------------------------
(* The receiver goroutine *)

MonIdle(r) == [pc |-> "read", pkt |-> NoPkt, mcookie |-> ZeroCookie, cont |-> TRUE,
               r |-> r]

(* Where the loop goes after writeReport: continue, or return after a     *)
(* read error that is neither a timeout nor temporary (maint.go:228-231). *)
After_loops(m) == MonIdle(m.r)

After(m) == IF m.cont THEN MonIdle(m.r)
            ELSE [MonIdle(m.r) EXCEPT !.pc = "done"]

Init ==
    /\ rev \in Revisions
    /\ goos \in Platforms
    /\ \E n \in ProbeNetworks, rawOK \in BOOLEAN :
          \E f \in FamiliesOf(n) :
             t \in {NewTester(rev, n, f, rawOK), NilTester, ZeroTester}
    /\ sockOpen = [s \in Socks |-> t.shape = "full" /\ (s = t.pconn.sock \/ s = t.mconn.sock)]
    /\ cookie = ZeroCookie
    /\ emitReport = InitialEmit
    /\ report = <<>>
    /\ initDone = FALSE
    /\ mon = [MonIdle(ZeroReport) EXCEPT !.pc = "off"]
    /\ prober = [pc |-> "idle", cm |-> NoCM, ret |-> Nil, wire |-> NoWire]
    /\ panicked = FALSE
    /\ call = NoCall
    /\ lbt = NoLoopback

-----------------------------------------------------------------------------
(* maint.monitor, src/maint.go:219-314 (atomic) and 57-142 (mutex) *)

Arrivals == IF sockOpen[t.mconn.sock] THEN Packets
            ELSE {Pkt("readerr_fatal", 0, 0)}

(* The iteration ends without a report: continue.  The packet and the     *)
(* snapshot stay in the locals until the next iteration overwrites them.  *)
Dropped(m, r) == [MonIdle(r) EXCEPT !.pkt = m.pkt, !.mcookie = m.mcookie]

ErrorReport_noerror(c, r, pkt) ==
    [r EXCEPT !.OrigHeader = "iph", !.OrigPayload = "data"]

(* The report after parseICMPError and the inner parse, maint.go:282-296 *)
ErrorReport(c, r, pkt) ==
    CASE pkt.kind = "err_trunc" ->
            [r EXCEPT !.OrigHeader = Nil, !.OrigPayload = Nil, !.Error = "error"]
      [] pkt.kind = "err_icmp_bad" ->
            [r EXCEPT !.OrigHeader = "iph", !.OrigPayload = "data",
                      !.Error = "error"]
      [] OTHER ->
            [r EXCEPT !.OrigHeader = "iph", !.OrigPayload = "data"]

(* Whether the comparison of an ICMP error reads t.cookie again instead of *)
(* the snapshot: maint.go:131 and 137 (mutex) against 301 and 307 (atomic) *)
RereadsCookie(revision, pkt) ==
    revision = "mutex" /\ pkt.kind \in {"err_icmp_echo", "err_icmp_other", "err_udp"}

(* The dispatch of one parsed packet with the snapshot ck, maint.go:272-312 *)
Dispatch(m, c, os, revision, ck) ==
    LET pkt == m.pkt
        m1 == [m EXCEPT !.mcookie = ck]
    IN CASE pkt.kind = "echoreply" ->
              IF EchoReplyAccepted(c, os, pkt, ck)
              THEN [m1 EXCEPT !.pc = "emit"] ELSE Dropped(m1, m.r)
         [] pkt.kind \in {"err_trunc", "err_icmp_bad"} ->
              [m1 EXCEPT !.pc = "emit", !.r = ErrorReport(c, m.r, pkt)]
         [] RereadsCookie(revision, pkt) ->
              [m1 EXCEPT !.pc = "cmp", !.r = ErrorReport(c, m.r, pkt)]
         [] OTHER ->
              IF ErrorAccepted(c, os, revision, pkt, QuotedHeader(c, pkt.kind), ck)
              THEN [m1 EXCEPT !.pc = "emit", !.r = ErrorReport(c, m.r, pkt)]
              ELSE Dropped(m1, ErrorReport(c, m.r, pkt))

(* One iteration up to the report: c.readFrom and icmp.ParseMessage        *)
(* (maint.go:224-271), then mcookie := load(t.cookie) and the dispatch.    *)
(* r is declared outside the loop, so the fields an iteration does not     *)
(* assign keep the values of the iteration before.                         *)
Transient_never(pkt) == FALSE

(* err.(net.Error) with Timeout() or Temporary(), maint.go:228 *)
Transient(pkt) == pkt.kind = "readerr_temp"

ReadStep(m, pkt, c, os, revision, ck) ==
    CASE pkt.kind \in ReadErrors ->
              [m EXCEPT !.pc = "emit", !.pkt = pkt,
                        !.cont = Transient(pkt),
                        !.r = [m.r EXCEPT !.Error = "error"]]
         [] pkt.kind = "badicmp" ->
              [m EXCEPT !.pc = "emit", !.pkt = pkt,
                        !.r = [m.r EXCEPT !.Error = "error"]]
         [] OTHER ->
              Dispatch([m EXCEPT !.pkt = pkt,
                                 !.r = [m.r EXCEPT !.ICMP =
                                   IF pkt.kind = "echoreply" THEN "EchoReply" ELSE "Error"]],
                       c, os, revision, ck)

MonRead ==
    /\ ~panicked
    /\ mon.pc = "read"
    /\ \E pkt \in Arrivals : mon' = ReadStep(mon, pkt, t.mconn, goos, rev, cookie)
    /\ UNCHANGED <<call, lbt, rev, goos, t, sockOpen, cookie, emitReport, report, initDone,
                   prober, panicked>>

(* The comparison against t.cookie itself, maint.go:131 and 137 *)
MonCompare ==
    /\ ~panicked
    /\ mon.pc = "cmp"
    /\ mon' = IF ErrorAccepted(t.mconn, goos, rev, mon.pkt, QuotedHeader(t.mconn, mon.pkt.kind), cookie)
              THEN [mon EXCEPT !.pc = "emit", !.mcookie = cookie]
              ELSE Dropped([mon EXCEPT !.mcookie = cookie], mon.r)
    /\ UNCHANGED <<call, lbt, rev, goos, t, sockOpen, cookie, emitReport, report, initDone,
                   prober, panicked>>

-----------------------------------------------------------------------------
(* maint.writeReport, src/maint.go:316-321 (atomic) and 144-150 (mutex) *)

EmitEnabled_always(flag) == TRUE

EmitEnabled_never(flag) == FALSE

EmitEnabled(flag) == flag > 0

(* The load of emitReport.  In the mutex revision it is made under        *)
(* reportMu.RLock, which is held until the send has completed.            *)
MonEmit ==
    /\ ~panicked
    /\ mon.pc = "emit"
    /\ mon' = IF EmitEnabled(emitReport) THEN [mon EXCEPT !.pc = "send"] ELSE After(mon)
    /\ UNCHANGED <<call, lbt, rev, goos, t, sockOpen, cookie, emitReport, report, initDone,
                   prober, panicked>>

(* The buffer of make(chan Report, 1) is full, part_000:139 *)
ChanFull_never(ch) == FALSE

ChanFull_untilclosed(ch) == Len(ch) >= ReportCap /\ sockOpen[t.mconn.sock]

ChanFull(ch) == Len(ch) >= ReportCap

(* t.report <- *r, which blocks while the channel is full *)
MonSend ==
    /\ ~panicked
    /\ mon.pc = "send"
    /\ ~ChanFull(report)
    /\ report' = Append(report, mon.r)
    /\ mon' = After(mon)
    /\ UNCHANGED <<call, lbt, rev, goos, t, sockOpen, cookie, emitReport, initDone,
                   prober, panicked>>

(* reportMu is read-locked by the receiver (mutex revision only) *)
ReportMuRLocked == rev = "mutex" /\ mon.pc = "send"

-----------------------------------------------------------------------------
(* The application: <-t.Report(), StartReport, StopReport *)

Recv ==
    /\ ~panicked
    /\ t.shape = "full"
    /\ Len(report) > 0
    /\ report' = Tail(report)
    /\ UNCHANGED <<call, lbt, rev, goos, t, sockOpen, cookie, emitReport, initDone, mon,
                   prober, panicked>>

(* maint.go:329-331 and 158-162 *)
StartReport ==
    /\ ~panicked
    /\ t.shape = "full"
    /\ ~ReportMuRLocked
    /\ emitReport' = 1
    /\ UNCHANGED <<call, lbt, rev, goos, t, sockOpen, cookie, report, initDone, mon,
                   prober, panicked>>

(* maint.go:334-336 and 165-169 *)
StopReport ==
    /\ ~panicked
    /\ t.shape = "full"
    /\ ~ReportMuRLocked
    /\ emitReport' = 0
    /\ UNCHANGED <<call, lbt, rev, goos, t, sockOpen, cookie, report, initDone, mon,
                   prober, panicked>>

-----------------------------------------------------------------------------
(* Tester.Probe, src/unnamed/part_000:72-125 and src/tester.go:67-120 *)

Idle(cm, ret, wire) == [pc |-> "idle", cm |-> cm, ret |-> ret, wire |-> wire]

(* The cookie Probe(cm) leaves behind on the probe endpoint p *)
ProbeCookie(p, cm) ==
    IF p.protocol = ianaProtocolUDP
    THEN udpCookie(ianaProtocolUDP, p.sport, cm.Port)
    ELSE icmpCookie(p.protocol, cm.ID, cm.Seq)

(* The bytes Probe hands to writeTo: an Echo Request (type 8 or 128 by    *)
(* the destination's family, which is the endpoint's) or a UDP datagram.  *)
WireOf_noseq(p, cm, b) ==
    IF p.protocol = ianaProtocolUDP
    THEN [type |-> "UDP", dport |-> cm.Port, data |-> b]
    ELSE [type |-> IF p.fam = 4 THEN "EchoRequest4" ELSE "EchoRequest6",
          id |-> cm.ID % Mask16, seq |-> 0, data |-> b]

WireOf(p, cm, b) ==
    IF p.protocol = ianaProtocolUDP
    THEN [type |-> "UDP", dport |-> cm.Port, data |-> b]
    ELSE [type |-> IF p.fam = 4 THEN "EchoRequest4" ELSE "EchoRequest6",
          id |-> cm.ID % Mask16, seq |-> cm.Seq % Mask16, data |-> b]

(* t.initOnce.Do(t.init): the first call runs init, which starts the      *)
(* receiver at the top of its loop (go t.monitor(t.mconn)); every later    *)
(* call returns without running it.  part_000:35-37, 73                    *)
OnceDo_always(done, m) == [m EXCEPT !.pc = "read"]

OnceDo(done, m) == IF done THEN m ELSE [m EXCEPT !.pc = "read"]

ProbeCall ==
    /\ ~panicked
    /\ t.shape = "full"
    /\ prober.pc = "idle"
    /\ \E cm \in ControlMessages :
          /\ cm.Seq = NextSeq(prober.cm.Seq)
          /\ prober' = [pc |-> IF t.pconn.rawSocket THEN "proto" ELSE "dst",
                        cm |-> cm, ret |-> Nil, wire |-> NoWire]
    /\ initDone' = TRUE
    /\ mon' = OnceDo(initDone, mon)
    /\ UNCHANGED <<call, lbt, rev, goos, t, sockOpen, cookie, emitReport, report, panicked>>

(* The first statement of Probe run by another application thread, at any  *)
(* moment of the first thread's call: t.initOnce.Do(t.init), part_000:73.  *)
(* Do returns to each caller only once init has run.                       *)
ProbeCallConcurrent ==
    /\ ~panicked
    /\ t.shape = "full"
    /\ initDone' = TRUE
    /\ mon' = OnceDo(initDone, mon)
    /\ UNCHANGED <<call, lbt, rev, goos, t, sockOpen, cookie, emitReport, report, prober,
                   panicked>>

(* Probe on a nil or zero-value tester dereferences nil. *)
ProbeNil ==
    /\ ~panicked
    /\ t.shape # "full"
    /\ panicked' = TRUE
    /\ UNCHANGED <<call, lbt, rev, goos, t, sockOpen, cookie, emitReport, report, initDone,
                   mon, prober>>

(* Whether a store of the cookie has to wait for the receiver m.  The      *)
(* atomic revision stores with atomic.StoreUint64 (maint.go:211-217); the  *)
(* mutex revision takes cookieMu (maint.go:45-55), which the receiver      *)
(* read-locks only around its load (99-101), never across a read or a send *)
CookieStoreWaits_onsend(m) == m.pc = "send"

CookieStoreWaits(m) == FALSE

ProbeSetUDP_udponly ==
    /\ ~panicked
    /\ prober.pc = "dst"
    /\ cookie' = IF t.pconn.protocol = ianaProtocolUDP
                 THEN udpCookie(ianaProtocolUDP, t.pconn.sport, prober.cm.Port)
                 ELSE cookie
    /\ prober' = [prober EXCEPT !.pc = IF t.pconn.protocol = ianaProtocolUDP
                                       THEN "write" ELSE "proto"]
    /\ UNCHANGED <<call, lbt, rev, goos, t, sockOpen, emitReport, report, initDone, mon, panicked>>

(* !t.pconn.rawSocket: t.setUDPCookie(ianaProtocolUDP, t.pconn.sport, cm.Port) *)
ProbeSetUDP ==
    /\ ~panicked
    /\ prober.pc = "dst"
    /\ ~CookieStoreWaits(mon)
    /\ cookie' = udpCookie(ianaProtocolUDP, t.pconn.sport, prober.cm.Port)
    /\ prober' = [prober EXCEPT !.pc = IF t.pconn.protocol = ianaProtocolUDP
                                       THEN "write" ELSE "proto"]
    /\ UNCHANGED <<call, lbt, rev, goos, t, sockOpen, emitReport, report, initDone, mon, panicked>>

(* case ICMP: t.setICMPCookie(t.pconn.protocol, echo.ID, echo.Seq), then  *)
(* Marshal and, for a multicast destination with an interface,            *)
(* SetMulticastInterface, whose error Probe returns.                      *)
ProbeSetICMP_nostore ==
    /\ ~panicked
    /\ prober.pc = "proto"
    /\ \E mcastErr \in BOOLEAN :
          prober' = IF mcastErr
                    THEN Idle(prober.cm, "error", NoWire)
                    ELSE [prober EXCEPT !.pc = "write"]
    /\ UNCHANGED <<call, lbt, rev, goos, t, sockOpen, cookie, emitReport, report, initDone, mon,
                   panicked>>

ProbeSetICMP_storelast ==
    /\ ~panicked
    /\ prober.pc = "proto"
    /\ \E mcastErr \in BOOLEAN :
          IF mcastErr
          THEN /\ cookie' = cookie
               /\ prober' = Idle(prober.cm, "error", NoWire)
          ELSE /\ cookie' = icmpCookie(t.pconn.protocol, prober.cm.ID, prober.cm.Seq)
               /\ prober' = [prober EXCEPT !.pc = "write"]
    /\ UNCHANGED <<call, lbt, rev, goos, t, sockOpen, emitReport, report, initDone, mon, panicked>>

ProbeSetICMP ==
    /\ ~panicked
    /\ prober.pc = "proto"
    /\ ~CookieStoreWaits(mon)
    /\ cookie' = icmpCookie(t.pconn.protocol, prober.cm.ID, prober.cm.Seq)
    /\ \E mcastErr \in BOOLEAN :
          prober' = IF mcastErr
                    THEN Idle(prober.cm, "error", NoWire)
                    ELSE [prober EXCEPT !.pc = "write"]
    /\ UNCHANGED <<call, lbt, rev, goos, t, sockOpen, emitReport, report, initDone, mon, panicked>>

(* t.pconn.writeTo(b, dst, ifi) and return *)
ProbeWrite ==
    /\ ~panicked
    /\ prober.pc = "write"
    /\ \E ok \in BOOLEAN :
          /\ ok => sockOpen[t.pconn.sock]
          /\ prober' = IF ok
                       THEN Idle(prober.cm, "ok", WireOf(t.pconn, prober.cm, Payload))
                       ELSE Idle(prober.cm, "error", NoWire)
    /\ UNCHANGED <<call, lbt, rev, goos, t, sockOpen, cookie, emitReport, report, initDone,
                   mon, panicked>>

-----------------------------------------------------------------------------
(* Tester.Close, src/unnamed/part_000:54-67 and src/tester.go:53-62;      *)
(* conn.close, src/conn.go:198-203                                        *)

(* c.c.Close() is called unless c is nil; on an open socket it returns    *)
(* oserr, on a closed one the net package's error.                        *)
connClose(c, open, oserr) ==
    IF c = NilConn THEN [err |-> "EINVAL", called |-> <<>>]
    ELSE [err |-> IF open[c.sock] THEN oserr ELSE "ErrClosed", called |-> <<c.sock>>]

Closed(open, called) == [s \in Socks |-> open[s] /\ \A i \in DOMAIN called : called[i] # s]

CloseAtomic_nocheck(tt, open, e1, e2) ==
    IF tt.shape = "nil"
    THEN [ret |-> "panic", perr |-> Nil, merr |-> Nil, calls |-> <<>>]
    ELSE LET p == connClose(tt.pconn, open, e1)
             m == connClose(tt.mconn, Closed(open, p.called), e2)
         IN IF tt.pconn = tt.mconn
            THEN [ret |-> p.err, perr |-> p.err, merr |-> Nil, calls |-> p.called]
            ELSE [ret |-> IF p.err # Nil THEN p.err ELSE m.err,
                  perr |-> p.err, merr |-> m.err, calls |-> p.called \o m.called]

(* part_000:54-67 *)
CloseAtomic(tt, open, e1, e2) ==
    IF tt.shape = "nil" \/ tt.pconn = NilConn \/ tt.mconn = NilConn
    THEN [ret |-> "EINVAL", perr |-> Nil, merr |-> Nil, calls |-> <<>>]
    ELSE LET p == connClose(tt.pconn, open, e1)
             m == connClose(tt.mconn, Closed(open, p.called), e2)
         IN IF tt.pconn = tt.mconn
            THEN [ret |-> p.err, perr |-> p.err, merr |-> Nil, calls |-> p.called]
            ELSE [ret |-> IF p.err # Nil THEN p.err ELSE m.err,
                  perr |-> p.err, merr |-> m.err, calls |-> p.called \o m.called]

(* tester.go:53-62 *)
CloseMutex(tt, open, e1, e2) ==
    IF tt.shape = "nil"
    THEN [ret |-> "panic", perr |-> Nil, merr |-> Nil, calls |-> <<>>]
    ELSE LET p == connClose(tt.pconn, open, e1)
             m == connClose(tt.mconn, Closed(open, p.called), e2)
         IN [ret |-> IF tt.pconn = tt.mconn \/ p.err # Nil THEN p.err ELSE m.err,
             perr |-> p.err, merr |-> m.err, calls |-> p.called \o m.called]

TesterClose(revision, tt, open, e1, e2) ==
    IF revision = "atomic" THEN CloseAtomic(tt, open, e1, e2)
                           ELSE CloseMutex(tt, open, e1, e2)

CloseErrors == {Nil, "EIO"}

(* What a call of Close would return in the current state, by the errors *)
(* the operating system gives                                             *)
CloseOutcomes == {TesterClose(rev, t, sockOpen, e1, e2) : e1, e2 \in CloseErrors}

(* The sockets and the program after a call of Close with outcome c *)
CloseEffect(c, open) ==
    [open |-> Closed(open, c.calls), panic |-> "panic" \in {c.ret, c.perr, c.merr}]

Close ==
    /\ ~panicked
    /\ \E e \in {CloseEffect(c, sockOpen) : c \in CloseOutcomes} :
          /\ sockOpen' = e.open
          /\ panicked' = e.panic
    /\ UNCHANGED <<call, lbt, rev, goos, t, cookie, emitReport, report, initDone, mon, prober>>

-----------------------------------------------------------------------------
Next ==
    \/ MonRead
    \/ MonCompare
    \/ MonEmit
    \/ MonSend
    \/ Recv
    \/ StartReport
    \/ StopReport
    \/ ProbeCall
    \/ ProbeNil
    \/ ProbeSetUDP
    \/ ProbeSetICMP
    \/ ProbeWrite
    \/ Close

Spec == Init /\ [][Next]_vars

TypeOK ==
    /\ rev \in Revisions
    /\ emitReport \in {0, 1}
    /\ Len(report) <= ReportCap
    /\ mon.pc \in {"off", "read", "cmp", "emit", "send", "done"}
    /\ prober.pc \in {"idle", "dst", "proto", "write"}

-----------------------------------------------------------------------------
(* The atomic revision alone: src/unnamed/part_000 with maint.go:171-337.  *)
(* Its receiver never compares against t.cookie a second time.             *)
InitAtomic == Init /\ rev = "atomic"

NextAtomic ==
    \/ MonRead
    \/ MonEmit
    \/ MonSend
    \/ Recv
    \/ StartReport
    \/ StopReport
    \/ ProbeCall
    \/ ProbeNil
    \/ ProbeSetUDP
    \/ ProbeSetICMP
    \/ ProbeWrite
    \/ Close

SpecAtomic == InitAtomic /\ [][NextAtomic]_vars

(* A step of the receiver that reads and dispatches a packet *)
Dispatched == mon.pc = "read" /\ mon' # mon

-----------------------------------------------------------------------------
(* C1: Echo Reply demultiplexing.  Whenever the receiver dispatches an     *)
(* Echo Reply, the reply goes on to writeReport if and only if             *)
(* icmpCookie(maintenance protocol, reply id, reply seq) equals the cookie *)
(* current at the dispatch, or the endpoint is no raw socket and the       *)
(* platform is Linux; otherwise the iteration ends without a report.  On a *)
(* raw endpoint an Echo Reply handed to writeReport carries exactly the    *)
(* current (protocol, id, seq).                                            *)
C1_EchoReplyDemux ==
    [][(Dispatched /\ mon'.pkt.kind = "echoreply") =>
          /\ mon'.pc \in {"emit", "read"}
          /\ mon'.pc = "emit" <=>
                \/ icmpCookie(t.mconn.protocol, mon'.pkt.x, mon'.pkt.y) = cookie
                \/ (~t.mconn.rawSocket /\ goos = "linux")
          /\ (mon'.pc = "emit" /\ t.mconn.rawSocket) =>
                /\ protocol(cookie) = t.mconn.protocol
                /\ icmpID(cookie) = mon'.pkt.x
                /\ icmpSeq(cookie) = mon'.pkt.y
          /\ mon'.pc = "read" => report' = report]_vars

(* An Echo Reply to the last probe of the sequence is accepted on a raw    *)
(* endpoint.                                                               *)
C1_Witness ==
    /\ mon.pc = "emit"
    /\ mon.pkt = Pkt("echoreply", Pid, MaxSeq)
    /\ t.mconn.rawSocket
    /\ mon.mcookie = icmpCookie(t.mconn.protocol, Pid, MaxSeq)

-----------------------------------------------------------------------------
(* C2: stale reply drop.  Once Probe(seq=1) and then Probe(seq=2) have     *)
(* returned on an ICMP tester, an Echo Reply bearing seq=1 that the        *)
(* receiver dispatches ends its iteration without a report when the        *)
(* maintenance endpoint is a raw socket, and is handed to writeReport in   *)
(* Linux unprivileged-datagram mode.                                       *)
BothProbesDone ==
    /\ t.shape = "full"
    /\ t.pconn.protocol # ianaProtocolUDP
    /\ prober.pc = "idle"
    /\ prober.cm.Seq = 2

C2_StaleReplyDrop ==
    [][(Dispatched /\ BothProbesDone /\ mon'.pkt = Pkt("echoreply", Pid, 1)) =>
          /\ t.mconn.rawSocket => (mon'.pc = "read" /\ report' = report)
          /\ LinuxDatagram(t.mconn, goos) => mon'.pc = "emit"]_vars

(* The seq=1 reply has been dropped against the cookie of the seq=2 probe *)
C2_Witness ==
    /\ BothProbesDone
    /\ prober.ret = "ok"
    /\ t.mconn.rawSocket
    /\ mon.pc = "read"
    /\ mon.pkt = Pkt("echoreply", Pid, 1)
    /\ mon.mcookie = icmpCookie(t.mconn.protocol, Pid, 2)
    /\ cookie = mon.mcookie
    /\ report = <<>>

-----------------------------------------------------------------------------
(* C3: unsolicited Echo Reply.  On a raw maintenance endpoint (ICMPv4, and *)
(* ICMPv6 alike) an Echo Reply with id=0, seq=0 is never handed to         *)
(* writeReport, in any reachable state, the one where the receiver runs    *)
(* and the cookie still holds its initial zero included.                   *)
C3_UnsolicitedEchoReply ==
    (mon.pkt = Pkt("echoreply", 0, 0) /\ t.mconn.rawSocket) => mon.pc = "read"

(* The receiver runs, the cookie is still zero, and the reply was dropped *)
C3_Witness ==
    /\ mon.pkt = Pkt("echoreply", 0, 0)
    /\ t.mconn.rawSocket
    /\ t.mconn.protocol = ianaProtocolICMP
    /\ mon.pc = "read"
    /\ mon.mcookie = ZeroCookie
    /\ cookie = ZeroCookie

-----------------------------------------------------------------------------
(* C4: cookie before transmit.  When Probe writes to the socket, the       *)
(* cookie already is that probe's fingerprint and the write leaves it      *)
(* alone; and the cookie changes only in a step of Probe that stores it.   *)
C4_CookieBeforeTransmit ==
    [][/\ (prober.pc = "write" /\ prober'.pc = "idle") =>
              /\ cookie = ProbeCookie(t.pconn, prober.cm)
              /\ cookie' = cookie
       /\ cookie' # cookie =>
              /\ prober.pc \in {"dst", "proto"}
              /\ prober'.pc # prober.pc
              /\ prober'.cm = prober.cm]_vars

(* An ICMP probe on a datagram endpoint is about to be written: both the   *)
(* UDP and the ICMP cookie stores are behind it.                           *)
C4_Witness ==
    /\ prober.pc = "write"
    /\ prober.cm.Seq = 2
    /\ t.pconn.protocol = ianaProtocolICMP
    /\ ~t.pconn.rawSocket
    /\ cookie = icmpCookie(ianaProtocolICMP, Pid, 2)

-----------------------------------------------------------------------------
(* C5: cookie value after Probe.  When Probe has returned, the cookie is   *)
(* icmpCookie(probe protocol, cm.ID, cm.Seq) on an ICMP tester and         *)
(* udpCookie(17, local port of the probe endpoint, cm.Port) on a UDP       *)
(* tester; the packet written is an Echo Request with cm.ID, cm.Seq and    *)
(* the payload, or a UDP datagram to cm.Port.                              *)
C5_CookieAfterProbe ==
    (t.shape = "full" /\ prober.pc = "idle" /\ prober.ret # Nil) =>
        IF t.pconn.protocol = ianaProtocolUDP
        THEN /\ cookie = udpCookie(17, t.pconn.sport, prober.cm.Port)
             /\ udpSport(cookie) = LocalPort
             /\ prober.ret = "ok" =>
                   /\ prober.wire.type = "UDP"
                   /\ prober.wire.dport = prober.cm.Port
                   /\ prober.wire.data = Payload
        ELSE /\ cookie = icmpCookie(t.pconn.protocol, prober.cm.ID, prober.cm.Seq)
             /\ prober.ret = "ok" =>
                   /\ prober.wire.type = (IF t.pconn.fam = 4 THEN "EchoRequest4"
                                                             ELSE "EchoRequest6")
                   /\ prober.wire.id = prober.cm.ID
                   /\ prober.wire.seq = prober.cm.Seq
                   /\ prober.wire.data = Payload

(* A UDP probe has been written and Probe has returned *)
C5_Witness ==
    /\ t.shape = "full"
    /\ t.pconn.protocol = ianaProtocolUDP
    /\ prober.pc = "idle"
    /\ prober.ret = "ok"
    /\ prober.cm.Seq = 2
    /\ cookie = <<LocalPort, DefaultPort + 1, 0, 17>>

-----------------------------------------------------------------------------
(* C6: emission gating, in both revisions.  writeReport run while          *)
(* emitReport is 0 (StopReport in effect) sends nothing and ends the       *)
(* iteration; run while emitReport is 1 it goes to the channel send with   *)
(* the report intact, so a packet in progress when StartReport is called   *)
(* is not lost; a pending send completes with that report; nothing else    *)
(* puts a report on the channel.  In the mutex revision the flag cannot    *)
(* change while a send is pending.                                         *)
C6_EmissionGating ==
    /\ [](rev = "mutex" /\ mon.pc = "send" => emitReport = 1)
    /\ [][/\ (mon.pc = "emit" /\ mon' # mon) =>
                IF emitReport = 0
                THEN report' = report /\ mon'.pc \in {"read", "done"}
                ELSE report' = report /\ mon'.pc = "send" /\ mon'.r = mon.r
          /\ (mon.pc = "send" /\ mon' # mon) => report' = Append(report, mon.r)
          /\ Len(report') > Len(report) => mon.pc = "send"]_vars

(* StopReport is in effect and an accepted Echo Reply reaches writeReport *)
C6_Witness ==
    /\ mon.pc = "emit"
    /\ mon.pkt.kind = "echoreply"
    /\ emitReport = 0
    /\ report = <<>>
    /\ sockOpen[t.mconn.sock]

-----------------------------------------------------------------------------
(* A tester on which neither StartReport nor StopReport is ever called *)
NextDefault ==
    \/ MonRead
    \/ MonCompare
    \/ MonEmit
    \/ MonSend
    \/ Recv
    \/ ProbeCall
    \/ ProbeNil
    \/ ProbeSetUDP
    \/ ProbeSetICMP
    \/ ProbeWrite
    \/ Close

SpecDefault == Init /\ [][NextDefault]_vars

(* C7: emission defaults to enabled, in both revisions.  On a tester from  *)
(* NewTester with StartReport and StopReport never called, emitReport is   *)
(* set, and every packet that reaches writeReport goes to the channel      *)
(* send, which puts its report on the channel.                             *)
C7_EmissionDefault ==
    /\ [](t.shape = "full" => (emitReport = 1 /\ EmitEnabled(emitReport)))
    /\ [][/\ (mon.pc = "emit" /\ mon' # mon) => (mon'.pc = "send" /\ mon'.r = mon.r)
          /\ (mon.pc = "send" /\ mon' # mon) => report' = Append(report, mon.r)]_vars

(* One Echo Reply report is on the channel and the next one is being sent *)
C7_Witness ==
    /\ t.shape = "full"
    /\ Len(report) = 1
    /\ report[1].ICMP = "EchoReply"
    /\ mon.pc = "send"
    /\ mon.pkt.kind = "echoreply"

-----------------------------------------------------------------------------
(* Shutdown of the atomic revision on Linux with a raw IPv4 maintenance    *)
(* endpoint.  The scheduler runs the receiver goroutine whenever it can    *)
(* take a step: a read on a closed socket returns, writeReport runs, and a *)
(* send proceeds once the channel has room.  A read on an open socket may  *)
(* wait for a packet for ever, and the application owes no step.           *)
MaintClosed == ~sockOpen[t.mconn.sock]

InitShutdown ==
    /\ Init
    /\ rev = "atomic"
    /\ goos = "linux"
    /\ t.shape = "full"
    /\ t.mconn.rawSocket
    /\ t.mconn.fam = 4

NextShutdown ==
    \/ MonRead
    \/ MonEmit
    \/ MonSend
    \/ Recv
    \/ StartReport
    \/ StopReport
    \/ ProbeCall
    \/ ProbeSetUDP
    \/ ProbeSetICMP
    \/ ProbeWrite
    \/ Close

ReceiverFairness ==
    /\ WF_vars(MonRead /\ MaintClosed)
    /\ WF_vars(MonEmit)
    /\ WF_vars(MonSend)

SpecShutdown == InitShutdown /\ [][NextShutdown]_vars /\ ReceiverFairness

(* C8 as stated: once Close has closed the maintenance socket of a tester  *)
(* whose receiver was started, the receiver eventually returns.            *)
C8_AlwaysTerminates == (initDone /\ MaintClosed) ~> (mon.pc = "done")

(* C8, amended: provided the report channel has room again and again (the  *)
(* application keeps receiving from Report(), or emission is off), once    *)
(* Close has closed the maintenance socket of a tester whose receiver was  *)
(* started, the receiver eventually returns; and a receiver that has       *)
(* returned reads no more.                                                 *)
C8_ShutdownLiveness ==
    /\ ([]<>(Len(report) < ReportCap)) => ((initDone /\ MaintClosed) ~> (mon.pc = "done"))
    /\ [][mon.pc = "done" => mon'.pc = "done"]_vars

(* The receiver has returned after Close, its last report delivered *)
C8_Witness ==
    /\ initDone
    /\ MaintClosed
    /\ mon.pc = "done"
    /\ mon.r.Error = "error"
    /\ report = <<>>

-----------------------------------------------------------------------------
AllClosed == t.shape = "full" /\ ~sockOpen[t.pconn.sock] /\ ~sockOpen[t.mconn.sock]

(* C9: repeated Close (part_000:54-67).  In every reachable state a call   *)
(* of Close does not panic; on a nil or zero-value tester it returns       *)
(* EINVAL and closes nothing; on a tester already closed it returns an     *)
(* error and leaves every socket as it was; and a step of Close changes    *)
(* nothing but the sockets.                                                *)
C9_RepeatedClose ==
    /\ [](\A c \in CloseOutcomes :
             /\ "panic" \notin {c.ret, c.perr, c.merr}
             /\ t.shape # "full" => (c.ret = "EINVAL" /\ c.calls = <<>>)
             /\ AllClosed => (c.ret # Nil /\ Closed(sockOpen, c.calls) = sockOpen))
    /\ [][sockOpen' # sockOpen =>
             /\ \E c \in CloseOutcomes : sockOpen' = Closed(sockOpen, c.calls)
             /\ UNCHANGED <<call, lbt, rev, goos, t, cookie, emitReport, report, initDone, mon,
                            prober, panicked>>]_vars

(* Close has been called once on a tester with two endpoints *)
C9_Witness ==
    /\ AllClosed
    /\ t.pconn # t.mconn
    /\ ~panicked
    /\ \A c \in CloseOutcomes : c.ret = "ErrClosed"

-----------------------------------------------------------------------------
(* C10: aliased Close, in both revisions.  When the probe and the          *)
(* maintenance endpoint are one endpoint, a call of Close issues exactly   *)
(* one close on the socket; when they are distinct, it closes each exactly *)
(* once, the probe endpoint first, and returns the probe endpoint's error  *)
(* if non-nil, otherwise the maintenance endpoint's.                       *)
C10_AliasedCloseOnce ==
    t.shape = "full" =>
        \A c \in CloseOutcomes :
            IF t.pconn = t.mconn
            THEN c.calls = <<t.pconn.sock>> /\ c.ret = c.perr
            ELSE /\ c.calls = <<t.pconn.sock, t.mconn.sock>>
                 /\ c.ret = (IF c.perr # Nil THEN c.perr ELSE c.merr)

(* C10 on the revision of part_000 alone (54-67), where Close returns     *)
(* after the first close when the endpoints are one.                      *)
C10_AtomicCloseOnce == rev = "atomic" => C10_AliasedCloseOnce

(* tester.go:54 on an "ip6:ipv6-icmp" tester: one call of Close issues two *)
(* closes on the one socket.                                               *)
C10_Witness ==
    /\ rev = "mutex"
    /\ t.shape = "full"
    /\ t.pconn = t.mconn
    /\ \A c \in CloseOutcomes : c.calls = <<t.pconn.sock, t.pconn.sock>>

-----------------------------------------------------------------------------
(* writeReport is running: the flag load or the channel send is next *)
InWriteReport == mon.pc \in {"emit", "send"}

(* C11: read-error disposition.  A read error sets r.Error and goes to     *)
(* writeReport; after writeReport the receiver reads again when the error  *)
(* was a timeout or temporary, and returns when it was any other; and the  *)
(* receiver returns in no other way.                                       *)
C11_ReadErrorDisposition ==
    [][/\ (Dispatched /\ mon'.pkt.kind \in ReadErrors) =>
              /\ mon'.pc = "emit"
              /\ mon'.r.Error = "error"
              /\ mon'.cont <=> (mon'.pkt.kind = "readerr_temp")
       /\ (InWriteReport /\ mon.pkt.kind = "readerr_temp" /\ mon' # mon) =>
              mon'.pc \in {"send", "read"}
       /\ (InWriteReport /\ mon.pkt.kind = "readerr_fatal" /\ mon' # mon) =>
              mon'.pc \in {"send", "done"}
       /\ (mon'.pc = "done" /\ mon.pc # "done") =>
              (InWriteReport /\ mon.pkt.kind = "readerr_fatal")]_vars

(* The report of a temporary read error is being sent on an open socket;  *)
(* the loop continues after it.                                           *)
C11_Witness ==
    /\ mon.pc = "send"
    /\ mon.pkt.kind = "readerr_temp"
    /\ mon.cont
    /\ mon.r.Error = "error"
    /\ sockOpen[t.mconn.sock]

-----------------------------------------------------------------------------
(* C12: terminal behaviour.  After a fatal read error writeReport sends    *)
(* exactly one report, with Error set, when emission is enabled, and none  *)
(* when it is not; then the receiver has returned, stays returned and      *)
(* nothing is put on the channel any more.  Nothing closes the channel: a  *)
(* receive from Report() on the empty channel of a returned receiver       *)
(* cannot proceed.                                                         *)
C12_TerminalBehaviour ==
    /\ [](mon.pc = "done" /\ report = <<>> => ~ENABLED Recv)
    /\ [][/\ (mon.pc = "emit" /\ mon.pkt.kind = "readerr_fatal" /\ mon' # mon) =>
                /\ report' = report
                /\ mon'.pc = (IF emitReport = 1 THEN "send" ELSE "done")
          /\ (mon.pc = "send" /\ mon.pkt.kind = "readerr_fatal" /\ mon' # mon) =>
                /\ mon.r.Error = "error"
                /\ report' = Append(report, mon.r)
                /\ mon'.pc = "done"
          /\ mon.pc = "done" =>
                /\ mon' = mon
                /\ Len(report') <= Len(report)]_vars

(* The receiver has returned and its final report waits on the channel *)
C12_Witness ==
    /\ mon.pc = "done"
    /\ emitReport = 1
    /\ Len(report) = 1
    /\ report[1].Error = "error"

-----------------------------------------------------------------------------
(* Packets that are read and parsed without any failure *)
ParsedKinds == {"echoreply", "err_icmp_echo", "err_icmp_other", "err_udp", "err_frag"}

(* C13: fresh report per packet.  Every report handed to writeReport for a *)
(* packet that was read and parsed without failure has Error = nil,        *)
(* whatever packets came before.                                           *)
C13_FreshReport ==
    (InWriteReport /\ mon.pkt.kind \in ParsedKinds) => mon.r.Error = Nil

(* var r Report is declared once, before the loop (maint.go:220), and      *)
(* r.Error is only ever assigned an error: the report of a well-formed,    *)
(* matching Echo Reply is being sent with the Error of an earlier packet.  *)
C13_Witness ==
    /\ mon.pc = "send"
    /\ mon.pkt = Pkt("echoreply", Pid, 1)
    /\ mon.mcookie = icmpCookie(t.mconn.protocol, Pid, 1)
    /\ t.mconn.rawSocket
    /\ mon.r.ICMP = "EchoReply"
    /\ mon.r.Error = "error"

-----------------------------------------------------------------------------
(* C14: OrigHeader and OrigPayload scoping.  In every report handed to     *)
(* writeReport, OrigHeader and OrigPayload are set only when the report's  *)
(* ICMP message is an ICMP error; the report of an Echo Reply carries      *)
(* neither, whatever packets came before.                                  *)
C14_OrigScoping ==
    InWriteReport =>
        /\ mon.r.ICMP = "EchoReply" => (mon.r.OrigHeader = Nil /\ mon.r.OrigPayload = Nil)
        /\ (mon.r.OrigHeader # Nil \/ mon.r.OrigPayload # Nil) => mon.r.ICMP = "Error"

(* r outlives the iteration (maint.go:220) and the Echo Reply branch       *)
(* (274-280) assigns neither field: the report of a matching Echo Reply is *)
(* being sent with the quoted header and payload of an earlier ICMP error. *)
C14_Witness ==
    /\ mon.pc = "send"
    /\ mon.pkt = Pkt("echoreply", Pid, 1)
    /\ mon.mcookie = icmpCookie(t.mconn.protocol, Pid, 1)
    /\ t.mconn.rawSocket
    /\ mon.r.ICMP = "EchoReply"
    /\ mon.r.Error = Nil
    /\ mon.r.OrigHeader = "iph"
    /\ mon.r.OrigPayload = "data"

-----------------------------------------------------------------------------
(* C15: UDP-probe error matching.  A dispatched ICMP error that quotes UDP *)
(* goes to writeReport if and only if udpCookie(17, quoted source port,    *)
(* quoted destination port) equals the cookie current at the dispatch, on  *)
(* Linux datagram endpoints as on any other; an accepted one quotes the    *)
(* local port of the probe endpoint and the Port of the latest Probe that  *)
(* stored its cookie, and on a UDP tester whose latest Probe has stored    *)
(* its cookie every error quoting those two ports is accepted.             *)
C15_UDPErrorMatching ==
    [][(Dispatched /\ mon'.pkt.kind = "err_udp") =>
          /\ mon'.pc \in {"emit", "read"}
          /\ mon'.pc = "emit" <=> udpCookie(17, mon'.pkt.x, mon'.pkt.y) = cookie
          /\ mon'.pc = "emit" =>
                /\ mon'.pkt.x = t.pconn.sport
                /\ prober.pc \in {"write", "idle"} =>
                      mon'.pkt.y = prober.cm.Port
          /\ (/\ t.pconn.protocol = ianaProtocolUDP
              /\ prober.pc \in {"write", "idle"}
              /\ prober.cm # NoCM
              /\ mon'.pkt.x = t.pconn.sport
              /\ mon'.pkt.y = prober.cm.Port) => mon'.pc = "emit"
          /\ mon'.pc = "read" => report' = report]_vars

(* On a Linux datagram maintenance endpoint an error quoting the ports of  *)
(* the second probe is accepted by its cookie.                             *)
C15_Witness ==
    /\ mon.pc = "emit"
    /\ mon.pkt = Pkt("err_udp", LocalPort, DefaultPort + 1)
    /\ mon.mcookie = udpCookie(17, LocalPort, DefaultPort + 1)
    /\ LinuxDatagram(t.mconn, goos)
    /\ t.pconn.protocol = ianaProtocolUDP
    /\ mon.r.OrigHeader = "iph"

-----------------------------------------------------------------------------
(* The step in which the receiver compares the cookie of a quoted packet   *)
(* of the given kind: the dispatch itself where the snapshot is compared   *)
(* (maint.go:301), the later read of t.cookie where it is not (131).       *)
Compared(kind) ==
    \/ Dispatched /\ mon'.pkt.kind = kind /\ mon'.pc # "cmp"
    \/ mon.pc = "cmp" /\ mon.pkt.kind = kind /\ mon' # mon

(* C16: ICMP-probe error matching.  An ICMP error that quotes an ICMP Echo *)
(* goes to writeReport if and only if icmpCookie(maintenance protocol,     *)
(* quoted id, quoted seq) equals the current cookie or the maintenance     *)
(* endpoint is a datagram endpoint on Linux; otherwise it is dropped       *)
(* without a report.  An error whose quoted ICMP message does not parse    *)
(* goes to writeReport with Error set, and the loop continues.             *)
C16_ICMPErrorMatching ==
    [][/\ Compared("err_icmp_echo") =>
             /\ mon'.pc \in {"emit", "read"}
             /\ mon'.pc = "emit" <=>
                   \/ icmpCookie(t.mconn.protocol, mon'.pkt.x, mon'.pkt.y) = cookie
                   \/ (goos = "linux" /\ ~t.mconn.rawSocket)
             /\ mon'.r.Error = mon.r.Error
             /\ mon'.pc = "read" => report' = report
       /\ (Dispatched /\ mon'.pkt.kind = "err_icmp_bad") =>
             /\ mon'.pc = "emit"
             /\ mon'.r.Error = "error"
             /\ mon'.cont
       /\ (InWriteReport /\ mon.pkt.kind = "err_icmp_bad" /\ mon' # mon) =>
             mon'.pc \in {"send", "read"}]_vars

(* A raw endpoint accepts the error quoting the second probe by its cookie *)
C16_Witness ==
    /\ mon.pc = "emit"
    /\ mon.pkt = Pkt("err_icmp_echo", Pid, 2)
    /\ mon.mcookie = icmpCookie(t.mconn.protocol, Pid, 2)
    /\ t.mconn.rawSocket
    /\ mon.r.ICMP = "Error"
    /\ mon.r.OrigHeader = "iph"

-----------------------------------------------------------------------------
(* C17: unknown inner protocol, in both revisions.  A dispatched ICMP      *)
(* error whose quoted header names neither ICMPv4, ICMPv6 nor UDP goes to  *)
(* writeReport, whatever the cookie is.                                    *)
C17_UnknownInnerProtocol ==
    [][(Dispatched /\ mon'.pkt.kind = "err_frag") =>
          /\ mon'.pc = "emit"
          /\ mon'.r.ICMP = "Error"
          /\ mon'.r.OrigHeader = "iph"]_vars

(* C17 on the revision of maint.go:219-314 alone, whose switch has the     *)
(* default case (310-311).                                                 *)
C17_AtomicDefaultEmits ==
    [][(rev = "atomic" /\ Dispatched /\ mon'.pkt.kind = "err_frag") =>
          /\ mon'.pc = "emit"
          /\ mon'.r.ICMP = "Error"
          /\ mon'.r.OrigHeader = "iph"]_vars

(* maint.go:119-140: the switch has no default case, so the error is       *)
(* parsed into r and the iteration ends without writeReport.               *)
C17_Witness ==
    /\ rev = "mutex"
    /\ mon.pc = "read"
    /\ mon.pkt.kind = "err_frag"
    /\ mon.r.ICMP = "Error"
    /\ mon.r.OrigHeader = "iph"
    /\ report = <<>>
    /\ emitReport = 1

-----------------------------------------------------------------------------
(* A packet whose ICMP message does not parse (maint.go:264-269) or whose  *)
(* ICMP error body is truncated (282-287)                                  *)
ParseFailures == {"badicmp", "err_trunc"}

(* C18: parse failures are not fatal.  A packet whose ICMP message does    *)
(* not parse, or whose ICMP error body is truncated, sets r.Error and goes *)
(* to writeReport once; writeReport sends at most that one report, with    *)
(* Error set, and the receiver is then back at the read, never returned.   *)
C18_ParseFailureNonFatal ==
    [][/\ (Dispatched /\ mon'.pkt.kind \in ParseFailures) =>
             /\ mon'.pc = "emit"
             /\ mon'.r.Error = "error"
             /\ mon'.cont
             /\ mon'.pkt.kind = "err_trunc" =>
                   (mon'.r.OrigHeader = Nil /\ mon'.r.OrigPayload = Nil)
             /\ report' = report
       /\ (mon.pc = "emit" /\ mon.pkt.kind \in ParseFailures /\ mon' # mon) =>
             /\ mon'.pc = (IF emitReport > 0 THEN "send" ELSE "read")
             /\ report' = report
       /\ (mon.pc = "send" /\ mon.pkt.kind \in ParseFailures /\ mon' # mon) =>
             /\ mon.r.Error = "error"
             /\ report' = Append(report, mon.r)
             /\ mon'.pc = "read"
             /\ mon'.pkt = NoPkt]_vars

(* The report of a truncated ICMP error is about to be sent, and the loop  *)
(* is to continue after it.                                                *)
C18_Witness ==
    /\ mon.pc = "send"
    /\ mon.pkt.kind = "err_trunc"
    /\ mon.r.Error = "error"
    /\ mon.r.ICMP = "Error"
    /\ mon.r.OrigHeader = Nil
    /\ mon.cont
    /\ report = <<>>

-----------------------------------------------------------------------------
(* The atomic revision with a second application thread that enters Probe  *)
(* while the first is anywhere in its own call.                            *)
NextOnce == NextAtomic \/ ProbeCallConcurrent

SpecOnce == InitAtomic /\ [][NextOnce]_vars

(* The first thread has passed t.initOnce.Do in a call of Probe *)
PastOnce == prober.pc \in {"dst", "proto", "write"} \/ prober.ret # Nil

(* C19: lazy one-shot start.  The receiver does not exist until a call of  *)
(* Probe has run t.initOnce.Do; the call that finds the Once unused starts *)
(* it at the top of its loop, every other call, from the same thread or    *)
(* another, leaves the running receiver as it is, and it never returns to  *)
(* the not-started state; and whenever a thread is past the Do, hence      *)
(* whenever a probe packet is written, the receiver has been started.      *)
C19_LazyOneShotStart ==
    /\ [](mon.pc = "off" <=> ~initDone)
    /\ [](PastOnce => mon.pc # "off")
    /\ [][/\ (mon.pc = "off" /\ mon'.pc # "off") =>
                 (initDone' /\ mon' = [mon EXCEPT !.pc = "read"])
          /\ (mon.pc # "off" /\ prober' # prober) => mon' = mon
          /\ (mon.pc = "send" /\ mon' # mon) => report' = Append(report, mon.r)
          /\ mon.pc # "off" => mon'.pc # "off"
          /\ (prober'.wire # NoWire /\ prober.wire = NoWire) => mon.pc # "off"]_vars

(* The second Probe of the first thread is about to write its packet       *)
(* while the one receiver, started by the other thread, is in a send.      *)
C19_Witness ==
    /\ initDone
    /\ prober.pc = "write"
    /\ prober.cm # NoCM
    /\ prober.cm.Seq = 2
    /\ mon.pc = "send"
    /\ mon.pkt.kind = "echoreply"

-----------------------------------------------------------------------------
(* C20: report channel order and backpressure.  The channel never holds    *)
(* more than its capacity of one report; a send appends the receiver's     *)
(* report at the tail and a receive from Report() takes the head, so       *)
(* reports are received in the order they were sent; and while the         *)
(* receiver is at the send with the channel full it takes no step at all,  *)
(* neither the send nor a further read, until a receive has made room.     *)
C20_ChannelBackpressure ==
    /\ [](Len(report) <= ReportCap)
    /\ []((mon.pc = "send" /\ Len(report) = ReportCap) =>
             (~ENABLED MonSend /\ ~ENABLED MonRead /\ ENABLED Recv))
    /\ [][/\ report' # report =>
                \/ (mon.pc = "send" /\ report' = Append(report, mon.r)
                      /\ mon' = After(mon))
                \/ (report # <<>> /\ report' = Tail(report) /\ mon' = mon)
          /\ (mon.pc = "send" /\ Len(report) = ReportCap) =>
                /\ mon' = mon
                /\ Len(report') < ReportCap => report' = Tail(report)
          /\ (mon.pc = "send" /\ mon' # mon) => Len(report) < ReportCap]_vars

(* The receiver is blocked in the send of an ICMP error's report while the *)
(* report of an Echo Reply is still in the channel.                        *)
C20_Witness ==
    /\ mon.pc = "send"
    /\ emitReport = 1
    /\ Len(report) = ReportCap
    /\ report[1].ICMP = "EchoReply"
    /\ mon.r.ICMP = "Error"
    /\ sockOpen[t.mconn.sock]

-----------------------------------------------------------------------------
(* NewTester as a call that can fail: src/unnamed/part_000:138-181 and     *)
(* src/tester.go:133-160, with newProbeConn and newMaintConn of            *)
(* src/conn.go:310-342.                                                    *)

UnknownNetwork == "tcp"
CallNetworks == Networks \cup {UnknownNetwork}

(* Which listen of the call fails: none, the probe endpoint's (both the    *)
(* raw listener and its datagram fallback, conn.go:369-374), or the        *)
(* maintenance endpoint's.                                                 *)
ListenFailures == {"none", "probe", "maint"}

NoneOpen == [s \in Socks |-> FALSE]

(* t.pconn.close() on the error paths, part_000:153, 161, 167, 173, 177 *)
CloseProbe_leak(open) == open

CloseProbe(open) == [open EXCEPT ![1] = FALSE]

(* The tester, the error and the sockets left open when NewTester returns *)
NewTesterResult(revision, network, fam, rawOK, fail) ==
    IF network \notin Networks
    THEN [t |-> NilTester, err |-> "unknown network", open |-> NoneOpen]
    ELSE IF fail = "probe"
    THEN [t |-> NilTester, err |-> "listen", open |-> NoneOpen]
    ELSE LET tt == NewTester(revision, network, fam, rawOK)
             probeOpen == [s \in Socks |-> s = tt.pconn.sock]
         IN IF fail = "maint" /\ tt.mconn.sock # tt.pconn.sock
            THEN [t |-> NilTester, err |-> "listen", open |-> CloseProbe(probeOpen)]
            ELSE [t |-> tt, err |-> Nil,
                  open |-> [s \in Socks |-> s = tt.pconn.sock \/ s = tt.mconn.sock]]

NewTesterCall ==
    /\ call = NoCall
    /\ \E network \in CallNetworks, rawOK \in BOOLEAN, fail \in ListenFailures :
          \E fam \in FamiliesOf(network) :
             LET res == NewTesterResult(rev, network, fam, rawOK, fail)
             IN /\ call' = [op |-> "NewTester", network |-> network, fam |-> fam,
                            rawOK |-> rawOK, fail |-> fail, err |-> res.err]
                /\ t' = res.t
                /\ sockOpen' = res.open
    /\ UNCHANGED <<rev, goos, cookie, emitReport, report, initDone, mon, prober,
                   panicked, lbt>>

(* The application before it has a tester, in either revision *)
InitNew == Init /\ t = NilTester

NextNew == NewTesterCall

SpecNew == InitNew /\ [][NextNew]_vars

Constructed == call.op = "NewTester" /\ call.err = Nil

(* C21: maintenance endpoint selection, in both revisions.  For an         *)
(* IPv6-ICMP probe network the maintenance endpoint is the probe endpoint; *)
(* for an IPv4-ICMP probe network it is the probe endpoint when that is a  *)
(* datagram endpoint and otherwise a distinct IPv4-ICMP endpoint of the    *)
(* probe's address; for udp, udp4 and udp6 it is a distinct ICMP endpoint. *)
C21_MaintSelection ==
    Constructed =>
        CASE call.network \in {"ip6:ipv6-icmp", "ip6:58"} -> t.mconn = t.pconn
          [] call.network \in {"ip4:icmp", "ip4:1"} ->
                IF ~t.pconn.rawSocket
                THEN t.mconn = t.pconn
                ELSE /\ t.mconn.sock # t.pconn.sock
                     /\ t.mconn.protocol = ianaProtocolICMP
                     /\ t.mconn.fam = t.pconn.fam
          [] OTHER ->
                /\ t.mconn.sock # t.pconn.sock
                /\ t.mconn.protocol \in {ianaProtocolICMP, ianaProtocolIPv6ICMP}
                /\ t.mconn.fam = t.pconn.fam

(* C21 as the two revisions select: the IPv6-ICMP and the UDP rule as      *)
(* stated; for an IPv4-ICMP probe network part_000 takes the probe         *)
(* endpoint whenever it is an IPv4 endpoint, raw or not (conn.setup sets   *)
(* p4 on both), and opens a distinct one of the probe's family only for an *)
(* IPv6 address; tester.go always opens a distinct maintenance endpoint.   *)
C21_MaintSelectionAsCoded ==
    Constructed =>
        CASE call.network \in {"ip6:ipv6-icmp", "ip6:58"} -> t.mconn = t.pconn
          [] call.network \in {"ip4:icmp", "ip4:1"} ->
                IF rev = "atomic" /\ call.fam = 4
                THEN t.mconn = t.pconn /\ t.pconn.p4
                ELSE /\ t.mconn.sock # t.pconn.sock
                     /\ t.mconn.protocol = t.pconn.protocol
                     /\ t.mconn.fam = t.pconn.fam
                     /\ t.mconn.rawSocket = t.pconn.rawSocket
          [] OTHER ->
                /\ t.mconn.sock # t.pconn.sock
                /\ t.mconn.protocol \in {ianaProtocolICMP, ianaProtocolIPv6ICMP}
                /\ t.mconn.fam = t.pconn.fam

(* part_000 on a privileged "ip4:icmp" tester: the raw probe endpoint is   *)
(* the maintenance endpoint, and no second socket is open.                 *)
C21_Witness ==
    /\ Constructed
    /\ rev = "atomic"
    /\ call.network = "ip4:icmp"
    /\ t.pconn.rawSocket
    /\ t.mconn = t.pconn
    /\ sockOpen = [s \in Socks |-> s = 1]

(* C22: a failed constructor leaves nothing open.  A network string        *)
(* outside the seven known ones gives the unknown-network error; whenever  *)
(* NewTester returns an error it returns no tester and no socket opened in *)
(* the call is open; when it returns no error the tester's endpoints, and  *)
(* only they, are open.                                                    *)
C22_FailedConstructorClean ==
    call.op = "NewTester" =>
        /\ call.network \notin Networks => call.err = "unknown network"
        /\ (call.network \in Networks /\ call.fail = "probe") => call.err = "listen"
        /\ call.err # Nil => (t = NilTester /\ \A s \in Socks : ~sockOpen[s])
        /\ call.err = Nil =>
              /\ t.shape = "full"
              /\ \A s \in Socks : sockOpen[s] <=> (s = t.pconn.sock \/ s = t.mconn.sock)

(* "udp4": the probe endpoint was opened, the maintenance listen failed,   *)
(* and the probe endpoint is closed again.                                 *)
C22_Witness ==
    /\ call.op = "NewTester"
    /\ call.network = "udp4"
    /\ call.fail = "maint"
    /\ call.err = "listen"
    /\ t = NilTester
    /\ sockOpen = NoneOpen

-----------------------------------------------------------------------------
(* The cookie codec called on its own, src/maint.go:188-202 *)

(* Arguments tried: the ends of the 8-bit and 16-bit ranges, the protocol  *)
(* numbers in use, and one value past each range.                          *)
CodecProtocols == {0, ianaProtocolICMP, ianaProtocolUDP, ianaProtocolIPv6ICMP,
                   Mask8 - 1, Mask8 + ianaProtocolICMP}
CodecWords == {0, Pid, Mask8 - 1, Mask8, LocalPort, Mask16 - 1, Mask16 + Pid}
CodecOps == {"icmpCookie", "udpCookie"}

(* The cookie the named constructor makes *)
CookieOf(op, p, a, b) == IF op = "icmpCookie" THEN icmpCookie(p, a, b)
                                              ELSE udpCookie(p, a, b)

CookieCall ==
    /\ call.op \in CodecOps \cup {"none"}
    /\ \E op \in CodecOps, p \in CodecProtocols, a \in CodecWords, b \in CodecWords :
          call' = [op |-> op, protocol |-> p, a |-> a, b |-> b,
                   out |-> CookieOf(op, p, a, b)]
    /\ UNCHANGED <<rev, goos, t, sockOpen, cookie, emitReport, report, initDone, mon,
                   prober, panicked, lbt>>

(* No tester: only functions of the package are called *)
InitPure == Init /\ t = NilTester /\ rev = "atomic" /\ goos = "linux"

NextCodec == CookieCall

SpecCodec == InitPure /\ [][NextCodec]_vars

CodecCalled == call.op \in CodecOps

(* C23: cookie round trip.  For a protocol in 0..255 and id, seq (sport,   *)
(* dport) in 0..65535 the accessors of the cookie return the arguments:    *)
(* icmpID = id, icmpSeq = seq, protocol = protocol, and udpSport = sport,  *)
(* udpDport = dport, protocol = protocol; and in every cookie bits 8..31   *)
(* are zero.                                                               *)
C23_CookieRoundTrip ==
    CodecCalled =>
       /\ (call.protocol \in 0..(Mask8 - 1) /\ call.a \in 0..(Mask16 - 1)
             /\ call.b \in 0..(Mask16 - 1)) =>
              /\ call.op = "icmpCookie" =>
                    /\ icmpID(call.out) = call.a
                    /\ icmpSeq(call.out) = call.b
              /\ call.op = "udpCookie" =>
                    /\ udpSport(call.out) = call.a
                    /\ udpDport(call.out) = call.b
              /\ protocol(call.out) = call.protocol
       /\ call.out[3] = 0
       /\ call.out[4] \in 0..(Mask8 - 1)
       /\ call.out[1] \in 0..(Mask16 - 1)
       /\ call.out[2] \in 0..(Mask16 - 1)

(* udpCookie(17, 40000, 65535) gives back its three arguments *)
C23_Witness ==
    /\ call.op = "udpCookie"
    /\ call.protocol = ianaProtocolUDP
    /\ call.a = LocalPort
    /\ call.b = Mask16 - 1
    /\ udpSport(call.out) = LocalPort
    /\ udpDport(call.out) = Mask16 - 1
    /\ protocol(call.out) = ianaProtocolUDP

(* C24: cookies of different families never meet.  For the id and seq of   *)
(* any call, icmpCookie(1, id, seq) differs from icmpCookie(58, id, seq);  *)
(* and a cookie made with one protocol in 0..255 equals no cookie, of      *)
(* either form and of any id and seq, made with another.                   *)
C24_CookieFamilies ==
    CodecCalled =>
       /\ icmpCookie(ianaProtocolICMP, call.a, call.b)
             # icmpCookie(ianaProtocolIPv6ICMP, call.a, call.b)
       /\ call.protocol \in 0..(Mask8 - 1) =>
             \A op \in CodecOps, p \in CodecProtocols \cap 0..(Mask8 - 1),
                a \in CodecWords, b \in CodecWords :
                   CookieOf(op, p, a, b) = call.out => p = call.protocol
       /\ icmpCookie(ianaProtocolICMP, call.a, call.b)
             # udpCookie(ianaProtocolUDP, call.a, call.b)
       /\ icmpCookie(ianaProtocolIPv6ICMP, call.a, call.b)
             # udpCookie(ianaProtocolUDP, call.a, call.b)

(* An ICMPv6 cookie whose upper 32 bits are those of the ICMPv4 and the    *)
(* UDP cookie of the same two words                                        *)
C24_Witness ==
    /\ call.op = "icmpCookie"
    /\ call.protocol = ianaProtocolIPv6ICMP
    /\ call.a = Pid
    /\ call.b = Pid
    /\ call.out[1] = udpCookie(ianaProtocolUDP, Pid, Pid)[1]
    /\ call.out[2] = icmpCookie(ianaProtocolICMP, Pid, Pid)[2]
    /\ call.out # icmpCookie(ianaProtocolICMP, Pid, Pid)

-----------------------------------------------------------------------------
(* parseICMPError over the bytes of an ICMP error body, src/report.go:36-73. *)
(* A byte is a number in 0..255, a packet a sequence of bytes; Go's b[i]   *)
(* is b[i+1] here.                                                         *)

ipv4HeaderLen == 20     \* ipv4.HeaderLen
ipv6HeaderLen == 40     \* ipv6.HeaderLen
InnerMin == 8           \* bytes of the original datagram's payload required

U16(hi, lo) == hi * Mask8 + lo
Hi(w) == (w \div Mask8) % Mask8
Lo(w) == w % Mask8

(* The quoted IPv4 header as a raw ICMP socket delivers it, and its        *)
(* decoding by icmp.ParseIPv4Header: the header length is the low nibble   *)
(* of the first byte times four, the options are the bytes past the 20th.  *)
MarshalIPv4(h) ==
    <<h.Version * 16 + (h.Len \div 4), h.TOS, Hi(h.TotalLen), Lo(h.TotalLen),
      Hi(h.ID), Lo(h.ID), Hi(h.Flags * 8192 + h.FragOff), Lo(h.Flags * 8192 + h.FragOff),
      h.TTL, h.Protocol, Hi(h.Checksum), Lo(h.Checksum)>>
    \o h.Src \o h.Dst \o h.Options

ParseIPv4Header(b) ==
    IF Len(b) < ipv4HeaderLen THEN [err |-> "header too short"]
    ELSE LET hdrlen == (b[1] % 16) * 4
         IN IF hdrlen > Len(b) THEN [err |-> "buffer too short"]
            ELSE [err |-> Nil,
                  h |-> [Version |-> b[1] \div 16, Len |-> hdrlen, TOS |-> b[2],
                         TotalLen |-> U16(b[3], b[4]), ID |-> U16(b[5], b[6]),
                         Flags |-> U16(b[7], b[8]) \div 8192,
                         FragOff |-> U16(b[7], b[8]) % 8192,
                         TTL |-> b[9], Protocol |-> b[10],
                         Checksum |-> U16(b[11], b[12]),
                         Src |-> SubSeq(b, 13, 16), Dst |-> SubSeq(b, 17, 20),
                         Options |-> IF hdrlen > ipv4HeaderLen
                                     THEN SubSeq(b, ipv4HeaderLen + 1, hdrlen)
                                     ELSE <<>>]]

(* The IPv6 header and its decoding by ipv6.ParseHeader *)
MarshalIPv6(h) ==
    <<h.Version * 16 + (h.TrafficClass \div 16),
      (h.TrafficClass % 16) * 16 + (h.FlowLabel \div Mask16),
      Hi(h.FlowLabel % Mask16), Lo(h.FlowLabel),
      Hi(h.PayloadLen), Lo(h.PayloadLen), h.NextHeader, h.HopLimit>>
    \o h.Src \o h.Dst

ParseIPv6Header(b) ==
    IF Len(b) < ipv6HeaderLen THEN [err |-> "header too short"]
    ELSE [err |-> Nil,
          h |-> [Version |-> b[1] \div 16,
                 TrafficClass |-> (b[1] % 16) * 16 + (b[2] \div 16),
                 FlowLabel |-> (b[2] % 16) * Mask16 + U16(b[3], b[4]),
                 PayloadLen |-> U16(b[5], b[6]),
                 NextHeader |-> b[7], HopLimit |-> b[8],
                 Src |-> SubSeq(b, 9, 24), Dst |-> SubSeq(b, 25, 40)]]

(* The bodies that carry the original datagram, report.go:38-47 *)
ErrorBodies == {"DstUnreach", "PacketTooBig", "TimeExceeded", "ParamProb"}

BodyData(m) == IF m.Body \in ErrorBodies THEN m.Data ELSE <<>>

(* len(b) < HeaderLen + len(h.Options) + 8, report.go:55 and 65 *)
TooShort_noinner(b, hdr) == Len(b) < hdr

TooShort(b, hdr) == Len(b) < hdr + InnerMin

(* b[HeaderLen+len(h.Options):], report.go:58 and 68 *)
PayloadAfter_nooptions(b, hdr) == SubSeq(b, ipv4HeaderLen + 1, Len(b))

PayloadAfter(b, hdr) == SubSeq(b, hdr + 1, Len(b))

ParseFailed(e) == [iph |-> Nil, b |-> Nil, err |-> e]

parseICMPError(m) ==
    LET b == BodyData(m)
    IN IF m.Protocol = ianaProtocolICMP
       THEN LET p == ParseIPv4Header(b)
            IN IF p.err # Nil THEN ParseFailed(p.err)
               ELSE LET hdr == ipv4HeaderLen + Len(p.h.Options)
                    IN IF TooShort(b, hdr) THEN ParseFailed("too short")
                       ELSE [iph |-> p.h, b |-> PayloadAfter(b, hdr), err |-> Nil]
       ELSE LET p == ParseIPv6Header(b)
            IN IF p.err # Nil THEN ParseFailed(p.err)
               ELSE IF TooShort(b, ipv6HeaderLen) THEN ParseFailed("too short")
                    ELSE [iph |-> p.h, b |-> PayloadAfter(b, ipv6HeaderLen), err |-> Nil]

(* The original datagrams quoted: IPv4 headers of 4 (malformed), 5 and 6   *)
(* words, IPv6 headers, each before the first bytes of a UDP datagram from *)
(* LocalPort to DefaultPort, cut to every length.                          *)
FullPayload == <<Hi(LocalPort), Lo(LocalPort), Hi(DefaultPort), Lo(DefaultPort),
                 0, InnerMin + 1, 0, 0, 7>>
IHLs == {4, 5, 6}
OrigProtocols == {ianaProtocolICMP, ianaProtocolUDP, ianaProtocolIPv6Frag}

OrigV4(ihl, proto) ==
    [Version |-> 4, Len |-> ihl * 4, TOS |-> 0,
     TotalLen |-> ihl * 4 + Len(FullPayload), ID |-> 4660, Flags |-> 2,
     FragOff |-> 0, TTL |-> 1, Protocol |-> proto, Checksum |-> 0,
     Src |-> <<10, 0, 0, 1>>, Dst |-> <<10, 0, 0, 2>>,
     Options |-> IF ihl > 5 THEN [i \in 1..(4 * (ihl - 5)) |-> i % 2] ELSE <<>>]

OrigV6(nh) ==
    [Version |-> 6, TrafficClass |-> 184, FlowLabel |-> 74565,
     PayloadLen |-> Len(FullPayload), NextHeader |-> nh, HopLimit |-> 1,
     Src |-> [i \in 1..16 |-> IF i = 1 THEN 32 ELSE IF i = 16 THEN 1 ELSE 0],
     Dst |-> [i \in 1..16 |-> IF i = 1 THEN 32 ELSE IF i = 16 THEN 2 ELSE 0]]

OrigHeaders ==
    {[fam |-> 4, h |-> OrigV4(ihl, p)] : ihl \in IHLs, p \in OrigProtocols}
    \cup {[fam |-> 6, h |-> OrigV6(p)] : p \in OrigProtocols}

OrigBytes(o) == (IF o.fam = 4 THEN MarshalIPv4(o.h) ELSE MarshalIPv6(o.h)) \o FullPayload

MessageBodies == {"DstUnreach", "TimeExceeded", "Echo"}

ParseCall ==
    /\ call.op \in {"parseICMPError", "none"}
    /\ \E o \in OrigHeaders, body \in MessageBodies :
          \E n \in 0..Len(OrigBytes(o)) :
             LET m == [Protocol |-> IF o.fam = 4 THEN ianaProtocolICMP
                                                 ELSE ianaProtocolIPv6ICMP,
                       Body |-> body, Data |-> SubSeq(OrigBytes(o), 1, n)]
             IN call' = [op |-> "parseICMPError", m |-> m, fam |-> o.fam, h |-> o.h,
                         n |-> n, res |-> parseICMPError(m)]
    /\ UNCHANGED <<rev, goos, t, sockOpen, cookie, emitReport, report, initDone, mon,
                   prober, panicked, lbt>>

NextParse == ParseCall

SpecParse == InitPure /\ [][NextParse]_vars

(* An ICMP error body was parsed *)
ParsedError == call.op = "parseICMPError" /\ call.m.Body \in ErrorBodies

(* Length of the quoted header with its options, and whether the header is *)
(* a valid one                                                             *)
QuotedLen == IF call.fam = 4 THEN call.h.Len ELSE ipv6HeaderLen
QuotedValid == call.fam = 4 => call.h.Len >= ipv4HeaderLen

(* C25: truncation detection.  parseICMPError fails, returning neither a   *)
(* header nor a payload, whenever the data of the ICMP error is shorter    *)
(* than the quoted header with its options plus 8 bytes (40 + 8 for IPv6), *)
(* so on a Destination Unreachable whose data is just a 20-byte IPv4       *)
(* header; and it succeeds on every valid header followed by 8 bytes or    *)
(* more.                                                                   *)
C25_TruncationDetection ==
    ParsedError =>
       /\ call.n < QuotedLen + InnerMin => call.res.err # Nil
       /\ call.res.err # Nil => (call.res.iph = Nil /\ call.res.b = Nil)
       /\ (QuotedValid /\ call.n >= QuotedLen + InnerMin) => call.res.err = Nil
       /\ (call.m.Body = "DstUnreach" /\ call.fam = 4 /\ call.n = ipv4HeaderLen) =>
             call.res.err # Nil

(* A Destination Unreachable whose data is a 20-byte IPv4 header and       *)
(* nothing else is refused as too short.                                   *)
C25_Witness ==
    /\ call.op = "parseICMPError"
    /\ call.m.Body = "DstUnreach"
    /\ call.fam = 4
    /\ call.h.Len = ipv4HeaderLen
    /\ call.m.Data = MarshalIPv4(call.h)
    /\ Len(call.m.Data) = 20
    /\ call.res.err = "too short"

(* C26: error parser round trip.  From the data bytes(h) || b, with h a    *)
(* valid IPv4 header (options or none) or an IPv6 header and b of 8 bytes  *)
(* or more, parseICMPError returns a header equal to h and a payload equal *)
(* to b: the bytes after the header and its options, all of them and       *)
(* nothing before them.                                                    *)
C26_ErrorParserRoundTrip ==
    (ParsedError /\ QuotedValid /\ call.n >= QuotedLen + InnerMin) =>
       /\ call.res.err = Nil
       /\ call.res.iph = call.h
       /\ call.res.b = SubSeq(FullPayload, 1, call.n - QuotedLen)
       /\ Len(call.res.b) >= InnerMin
       /\ (IF call.fam = 4 THEN MarshalIPv4(call.res.iph)
                           ELSE MarshalIPv6(call.res.iph)) \o call.res.b = call.m.Data

(* An IPv4 header with four bytes of options before nine bytes of UDP: the *)
(* options come back in the header and the payload starts at the ports.    *)
C26_Witness ==
    /\ call.op = "parseICMPError"
    /\ call.m.Body = "TimeExceeded"
    /\ call.fam = 4
    /\ call.h.Len = 24
    /\ call.h.Protocol = ianaProtocolUDP
    /\ call.res.err = Nil
    /\ call.res.iph.Options = <<1, 0, 1, 0>>
    /\ call.res.iph.Protocol = ianaProtocolUDP
    /\ call.res.b = FullPayload
    /\ U16(call.res.b[1], call.res.b[2]) = LocalPort

-----------------------------------------------------------------------------
(* reachable, src/helper.go:67-104, over net.Addr values.  An IP is its    *)
(* byte sequence, of length 4 or 16; the nil IP is the empty sequence.  A  *)
(* mask is a CIDR mask, so each of its bytes is 256 - 2^k.                 *)

V4InV6Prefix == <<0, 0, 0, 0, 0, 0, 0, 0, 0, 0, 255, 255>>

To4(ip) == IF Len(ip) = 4 THEN ip
           ELSE IF Len(ip) = 16 /\ SubSeq(ip, 1, 12) = V4InV6Prefix
                THEN SubSeq(ip, 13, 16)
                ELSE <<>>

IsMulticast(ip) ==
    IF To4(ip) # <<>> THEN To4(ip)[1] \div 16 = 14
    ELSE Len(ip) = 16 /\ ip[1] = 255

Equal_bytes(ip, x) == ip = x

Equal(ip, x) ==
    IF Len(ip) = Len(x) THEN ip = x
    ELSE IF Len(ip) = 4 /\ Len(x) = 16
         THEN SubSeq(x, 1, 12) = V4InV6Prefix /\ ip = SubSeq(x, 13, 16)
         ELSE IF Len(ip) = 16 /\ Len(x) = 4
              THEN SubSeq(ip, 1, 12) = V4InV6Prefix /\ SubSeq(ip, 13, 16) = x
              ELSE FALSE

(* x & m for a byte m of a CIDR mask *)
AndMask(x, m) == x - (x % (Mask8 - m))

networkNumberAndMask(n) ==
    LET ip == IF To4(n.IP) # <<>> THEN To4(n.IP) ELSE n.IP
    IN IF Len(ip) \notin {4, 16} THEN [ip |-> <<>>, m |-> <<>>]
       ELSE IF Len(n.Mask) = 4
            THEN IF Len(ip) # 4 THEN [ip |-> <<>>, m |-> <<>>]
                                ELSE [ip |-> ip, m |-> n.Mask]
            ELSE IF Len(n.Mask) = 16
                 THEN [ip |-> ip,
                       m |-> IF Len(ip) = 4 THEN SubSeq(n.Mask, 13, 16) ELSE n.Mask]
                 ELSE [ip |-> <<>>, m |-> <<>>]

Contains(n, addr) ==
    LET nm == networkNumberAndMask(n)
        ip == IF To4(addr) # <<>> THEN To4(addr) ELSE addr
    IN /\ Len(ip) = Len(nm.ip)
       /\ \A i \in 1..Len(ip) : AndMask(nm.ip[i], nm.m[i]) = AndMask(ip[i], nm.m[i])

IPTypes == {"TCPAddr", "UDPAddr", "IPAddr"}

reachable(tgt, fm) ==
    IF tgt.type \notin IPTypes \cup {"IPNet"} THEN FALSE
    ELSE IF IsMulticast(tgt.IP) THEN TRUE
    ELSE IF fm.type \notin IPTypes THEN FALSE
    ELSE IF tgt.type = "IPNet" THEN Contains(tgt, fm.IP)
    ELSE Equal(tgt.IP, fm.IP)

(* Addresses tried *)
Mapped(ip4) == V4InV6Prefix \o ip4
V6(hi, lo) == [i \in 1..16 |-> IF i = 1 THEN hi ELSE IF i = 2 THEN 1
                               ELSE IF i = 16 THEN lo ELSE 0]
TestIPs == {<<10, 0, 0, 1>>, <<10, 0, 0, 2>>, <<10, 0, 1, 1>>, <<224, 0, 0, 1>>,
            Mapped(<<10, 0, 0, 1>>), V6(32, 1), V6(32, 2), V6(255, 1)}

(* net.CIDRMask(ones, 8 * bytes) *)
Pow2(k) == IF k = 0 THEN 1 ELSE IF k = 1 THEN 2 ELSE IF k = 2 THEN 4 ELSE IF k = 3 THEN 8
           ELSE IF k = 4 THEN 16 ELSE IF k = 5 THEN 32 ELSE IF k = 6 THEN 64
           ELSE IF k = 7 THEN 128 ELSE 256
OnesIn(ones, i) == IF ones - 8 * (i - 1) < 0 THEN 0
                   ELSE IF ones - 8 * (i - 1) > 8 THEN 8 ELSE ones - 8 * (i - 1)
CIDRMask(ones, bytes) == [i \in 1..bytes |-> Mask8 - Pow2(8 - OnesIn(ones, i))]

IPNet(ip, ones, bytes) ==
    [type |-> "IPNet", IP |-> ip, Mask |-> CIDRMask(ones, bytes), ones |-> ones]

TestNets == {IPNet(<<10, 0, 0, 0>>, 24, 4), IPNet(<<10, 0, 0, 77>>, 24, 4),
             IPNet(<<10, 0, 0, 0>>, 23, 4), IPNet(<<10, 0, 0, 1>>, 32, 4),
             IPNet(<<10, 0, 0, 0>>, 96 + 24, 16), IPNet(<<224, 0, 0, 0>>, 4, 4),
             IPNet(V6(32, 0), 64, 16), IPNet(V6(32, 1), 128, 16)}

OtherAddr == [type |-> "UnixAddr", IP |-> <<>>]
Targets == TestNets \cup {[type |-> ty, IP |-> ip] : ty \in IPTypes, ip \in TestIPs}
              \cup {OtherAddr}
Froms == {[type |-> ty, IP |-> ip] : ty \in IPTypes, ip \in TestIPs} \cup {OtherAddr}

ReachableCall ==
    /\ call.op = "none"
    /\ \E tgt \in Targets, fm \in Froms :
          call' = [op |-> "reachable", tgt |-> tgt, fm |-> fm, out |-> reachable(tgt, fm)]
    /\ UNCHANGED <<rev, goos, t, sockOpen, cookie, emitReport, report, initDone, mon,
                   prober, panicked, lbt>>

NextReach == ReachableCall

SpecReach == InitPure /\ [][NextReach]_vars

(* The address an IP denotes: an IPv4 address is the same address in its   *)
(* 4-byte and in its IPv4-mapped 16-byte form.                             *)
AddressOf(ip) == IF To4(ip) # <<>> THEN [fam |-> 4, a |-> To4(ip)]
                                   ELSE [fam |-> 6, a |-> ip]

(* The first ones bits of the address are those of the prefix *)
InPrefix(n, ip) ==
    LET p == AddressOf(n.IP)
        a == AddressOf(ip)
        ones == IF p.fam = 4 /\ Len(n.Mask) = 16 THEN n.ones - 96 ELSE n.ones
    IN /\ p.fam = a.fam
       /\ \A i \in 1..Len(a.a) :
             p.a[i] \div Pow2(8 - OnesIn(ones, i)) = a.a[i] \div Pow2(8 - OnesIn(ones, i))

(* C27: reachability.  reachable(target, from) is true for every multicast *)
(* target, whatever from is; for a prefix target that is not multicast it  *)
(* is true iff the first prefix-length bits of from's IP are the prefix's; *)
(* for an IP or IP+port target that is not multicast it is true iff the    *)
(* target's IP and from's IP are the same address.                         *)
C27_Reachability ==
    call.op = "reachable" =>
       /\ (call.tgt.type # "UnixAddr" /\ IsMulticast(call.tgt.IP)) => call.out
       /\ (call.tgt.type = "IPNet" /\ ~IsMulticast(call.tgt.IP)
              /\ call.fm.type \in IPTypes) =>
             (call.out <=> InPrefix(call.tgt, call.fm.IP))
       /\ (call.tgt.type \in IPTypes /\ ~IsMulticast(call.tgt.IP)
              /\ call.fm.type \in IPTypes) =>
             (call.out <=> AddressOf(call.tgt.IP) = AddressOf(call.fm.IP))

(* A UDP target 10.0.0.1 is reachable from the IP address ::ffff:10.0.0.1 *)
C27_Witness ==
    /\ call.op = "reachable"
    /\ call.tgt = [type |-> "UDPAddr", IP |-> <<10, 0, 0, 1>>]
    /\ call.fm = [type |-> "IPAddr", IP |-> Mapped(<<10, 0, 0, 1>>)]
    /\ call.out

-----------------------------------------------------------------------------
(* Loopback.Run, src/maint.go:369-515.  Time is a count of clock ticks;    *)
(* a Timeout is a number of ticks, negative for a deadline in the past.    *)

DefaultTimeout == 3     \* lbt.tmo = 3 * time.Second
StartSlack == 1         \* ticks that may pass before the deadline is set

LoopTimeouts == {0 - 1, 0, 1}
LoopTargets == {[type |-> "UDPAddr", IP |-> <<10, 0, 0, 1>>],
                [type |-> "IPAddr", IP |-> <<224, 0, 0, 1>>],
                IPNet(<<10, 0, 0, 0>>, 24, 4),
                IPNet(V6(32, 0), 24, 4),
                IPNet(<<10, 0, 0, 0>>, 64, 16),
                OtherAddr}
LoopPeers == {<<10, 0, 0, 1>>, <<10, 0, 1, 1>>}

(* loopbackTest.parse, maint.go:402-432: the timeout, and whether the      *)
(* target is an address the test can be sent to.                           *)
TmoOf(timeout) == IF timeout = 0 THEN DefaultTimeout ELSE timeout

(* net.IP.Mask: a 16-byte mask whose first 12 bytes are all ones is cut to *)
(* its last 4 for a 4-byte address, an IPv4-mapped 16-byte address is cut  *)
(* to its last 4 for a 4-byte mask; nil when the lengths then differ.      *)
allFF(b) == \A i \in 1..Len(b) : b[i] = Mask8 - 1

Mask(ip, mask) ==
    LET m == IF Len(mask) = 16 /\ Len(ip) = 4 /\ allFF(SubSeq(mask, 1, 12))
             THEN SubSeq(mask, 13, 16) ELSE mask
        a == IF Len(m) = 4 /\ Len(ip) = 16 /\ SubSeq(ip, 1, 12) = V4InV6Prefix
             THEN SubSeq(ip, 13, 16) ELSE ip
    IN IF Len(a) # Len(m) THEN <<>>
       ELSE [i \in 1..Len(a) |-> AndMask(a[i], m[i])]

(* The address handed to fn, maint.go:420-431, and fn's verdict, 407-418 *)
parseIP(tgt) == IF tgt.type = "IPNet" THEN Mask(tgt.IP, tgt.Mask) ELSE tgt.IP

parseOK(tgt) == tgt.type \in IPTypes \cup {"IPNet"} /\ Len(parseIP(tgt)) \in {4, 16}

(* What c.ReadFrom and icmp.ParseMessage hand the loop, maint.go:491-501:  *)
(* a read error other than the deadline's, a message that does not parse,  *)
(* an Echo Reply, or another message, whose quoted inner message is an     *)
(* Echo request like the one sent, some other ICMP message, or nothing     *)
(* parseICMPErrorMessage accepts.                                          *)
LoopPkt(kind, peer, id, seq, inner) ==
    [kind |-> kind, peer |-> peer, id |-> id, seq |-> seq, inner |-> inner]
NoLoopPkt == LoopPkt("none", <<>>, 0, 0, "none")
LoopPackets ==
    {LoopPkt("readerr", <<>>, 0, 0, "none"), LoopPkt("badicmp", <<>>, 0, 0, "none")}
    \cup {LoopPkt("echoreply", p, id, sq, "none") :
             p \in LoopPeers, id \in {Pid, Pid + 1}, sq \in 1..MaxSeq}
    \cup {LoopPkt("other", p, id, sq, inner) :
             p \in LoopPeers, id \in {Pid, Pid + 1}, sq \in 1..MaxSeq,
             inner \in {"echo", "echoreply", "bad"}}

(* The peer address as the endpoint reports it *)
PeerAddr(raw, ip) == [type |-> IF raw THEN "IPAddr" ELSE "UDPAddr", IP |-> ip]

(* maint.go:505 *)
LoopEchoAccepted_anyseq(tgt, peer, wseq, rseq) == reachable(tgt, peer)

LoopEchoAccepted(tgt, peer, wseq, rseq) == reachable(tgt, peer) /\ wseq = rseq

LoopErrorAccepted_anytype(pkt) == pkt.inner # "bad"

(* maint.go:509-510: parseICMPErrorMessage succeeds and m.Type == wm.Type *)
LoopErrorAccepted(pkt) == pkt.inner = "echo"

(* The read deadline has passed *)
Expired_never(now, deadline) == FALSE

Expired(now, deadline) == now >= deadline

LoopReturn(l, ret) == [l EXCEPT !.pc = "done", !.ret = ret, !.open = FALSE]
LoopError(e) == [kind |-> "error", err |-> e]
LoopReport(peer, rtt, icmpError) ==
    [kind |-> "report", Addr |-> peer, RTT |-> rtt, ICMPError |-> icmpError]

(* Run up to the call of roundTrip: parse, then the raw listener and its   *)
(* datagram fallback (maint.go:370-388).                                   *)
LoopRun ==
    /\ lbt.pc = "off"
    /\ \E timeout \in LoopTimeouts, tgt \in LoopTargets, sq \in 1..MaxSeq,
          listen \in {"raw", "datagram", "fail"} :
          LET l == [pc |-> "write", Timeout |-> timeout, tmo |-> TmoOf(timeout),
                    tgt |-> tgt, id |-> Pid, seq |-> sq, raw |-> listen = "raw",
                    open |-> TRUE, now |-> 0, begin |-> 0, deadline |-> 0,
                    skipped |-> FALSE, last |-> NoLoopPkt,
                    ret |-> [kind |-> "none"]]
          IN lbt' = IF ~parseOK(tgt)
                    THEN LoopReturn(l, LoopError("invalid address"))
                    ELSE IF listen = "fail"
                    THEN LoopReturn(l, LoopError("listen"))
                    ELSE l
    /\ UNCHANGED <<rev, goos, t, sockOpen, cookie, emitReport, report, initDone, mon,
                   prober, panicked, call>>

(* begin := time.Now() and the write, maint.go:446-484 *)
LoopWrite ==
    /\ lbt.pc = "write"
    /\ \E ok \in BOOLEAN :
          lbt' = IF ok THEN [lbt EXCEPT !.pc = "deadline", !.begin = lbt.now]
                       ELSE LoopReturn([lbt EXCEPT !.begin = lbt.now], LoopError("write"))
    /\ UNCHANGED <<rev, goos, t, sockOpen, cookie, emitReport, report, initDone, mon,
                   prober, panicked, call>>

(* c.SetReadDeadline(time.Now().Add(lbt.tmo)), maint.go:487-489: the      *)
(* deadline is set, or the call fails and Run returns its error.           *)
LoopSetDeadline ==
    /\ lbt.pc = "deadline"
    /\ \E ok \in BOOLEAN :
          lbt' = IF ok THEN [lbt EXCEPT !.pc = "read", !.deadline = lbt.now + lbt.tmo]
                       ELSE LoopReturn(lbt, LoopError("deadline"))
    /\ UNCHANGED <<rev, goos, t, sockOpen, cookie, emitReport, report, initDone, mon,
                   prober, panicked, call>>

(* One iteration of the loop on a packet read before the deadline *)
LoopRecv ==
    /\ lbt.pc = "read"
    /\ ~Expired(lbt.now, lbt.deadline)
    /\ \E pkt \in LoopPackets :
          LET l == [lbt EXCEPT !.last = pkt]
              rtt == lbt.now - lbt.begin
              peer == PeerAddr(lbt.raw, pkt.peer)
          IN lbt' =
              CASE pkt.kind = "readerr" -> LoopReturn(l, LoopError("read"))
                [] pkt.kind = "badicmp" -> LoopReturn(l, LoopError("parse"))
                [] pkt.kind = "echoreply" ->
                      IF LoopEchoAccepted(lbt.tgt, peer, lbt.seq, pkt.seq)
                      THEN LoopReturn(l, LoopReport(peer, rtt, FALSE))
                      ELSE [l EXCEPT !.skipped = TRUE]
                [] OTHER ->
                      IF LoopErrorAccepted(pkt)
                      THEN LoopReturn(l, LoopReport(peer, rtt, TRUE))
                      ELSE [l EXCEPT !.skipped = TRUE]
    /\ UNCHANGED <<rev, goos, t, sockOpen, cookie, emitReport, report, initDone, mon,
                   prober, panicked, call>>

(* c.ReadFrom once the deadline has passed returns the timeout error *)
LoopTimeout ==
    /\ lbt.pc = "read"
    /\ Expired(lbt.now, lbt.deadline)
    /\ lbt' = LoopReturn([lbt EXCEPT !.last = NoLoopPkt], LoopError("timeout"))
    /\ UNCHANGED <<rev, goos, t, sockOpen, cookie, emitReport, report, initDone, mon,
                   prober, panicked, call>>

(* The clock advances while Run is in progress *)
LoopTick ==
    /\ lbt.pc \in {"write", "deadline", "read"}
    /\ IF lbt.pc = "read" THEN lbt.now < lbt.deadline ELSE lbt.now < StartSlack
    /\ lbt' = [lbt EXCEPT !.now = lbt.now + 1]
    /\ UNCHANGED <<rev, goos, t, sockOpen, cookie, emitReport, report, initDone, mon,
                   prober, panicked, call>>

NextLoop ==
    \/ LoopRun
    \/ LoopWrite
    \/ LoopSetDeadline
    \/ LoopRecv
    \/ LoopTimeout
    \/ LoopTick

(* The write and the deadline call return, time passes, and a read past    *)
(* the deadline returns.                                                   *)
LoopFairness ==
    /\ WF_vars(LoopWrite)
    /\ WF_vars(LoopSetDeadline)
    /\ WF_vars(LoopTimeout)
    /\ WF_vars(LoopTick)

SpecLoop == InitPure /\ [][NextLoop]_vars /\ LoopFairness

(* An iteration of the read loop on an Echo Reply *)
LoopReadEchoReply ==
    /\ lbt.pc = "read"
    /\ lbt' # lbt
    /\ lbt'.now = lbt.now
    /\ lbt'.last.kind = "echoreply"

(* C28: loopback accept rule.  An Echo Reply read by Loopback.Run ends the *)
(* run with a report without ICMPError if and only if its peer is          *)
(* reachable from the target and its seq is the seq sent, whatever its id  *)
(* is; any other Echo Reply is skipped and the loop reads again, with the  *)
(* deadline unchanged; and a report without ICMPError is returned for      *)
(* nothing but such an Echo Reply.                                         *)
C28_LoopbackAccept ==
    [][/\ LoopReadEchoReply =>
             LET pkt == lbt'.last
                 ok == /\ reachable(lbt.tgt, PeerAddr(lbt.raw, pkt.peer))
                       /\ pkt.seq = lbt.seq
             IN /\ ok => /\ lbt'.pc = "done"
                         /\ lbt'.ret.kind = "report"
                         /\ ~lbt'.ret.ICMPError
                         /\ lbt'.ret.Addr.IP = pkt.peer
                /\ ~ok => /\ lbt'.pc = "read"
                          /\ lbt'.ret.kind = "none"
                          /\ lbt'.deadline = lbt.deadline
       /\ (lbt.pc # "off" /\ lbt.pc # "done" /\ lbt'.pc = "done"
             /\ lbt'.ret.kind = "report" /\ ~lbt'.ret.ICMPError) =>
             /\ LoopReadEchoReply
             /\ lbt'.last.seq = lbt.seq
             /\ reachable(lbt.tgt, PeerAddr(lbt.raw, lbt'.last.peer))]_vars

(* A reply with the sent seq and another id, from the target, is accepted  *)
(* after an earlier packet was skipped.                                    *)
C28_Witness ==
    /\ lbt.pc = "done"
    /\ lbt.ret.kind = "report"
    /\ ~lbt.ret.ICMPError
    /\ lbt.last.kind = "echoreply"
    /\ lbt.last.id # lbt.id
    /\ lbt.last.seq = lbt.seq
    /\ lbt.tgt.type = "UDPAddr"
    /\ lbt.last.peer = lbt.tgt.IP
    /\ lbt.skipped

Running == lbt.pc \in {"write", "deadline", "read"}

(* C29: loopback termination.  Every call of Loopback.Run returns; the     *)
(* deadline is set once, to the timeout (3 seconds when Timeout is zero)   *)
(* after the moment it is set, and no iteration of the read loop changes   *)
(* it; the run returns a report at the read of an accepted packet, never   *)
(* reads a packet once the deadline has passed, and returns the timeout    *)
(* error then.                                                             *)
C29_LoopbackTermination ==
    /\ (Running ~> lbt.pc = "done")
    /\ [](lbt.pc = "read" =>
             /\ lbt.now <= lbt.deadline \/ lbt.tmo < 0
             /\ lbt.tmo = (IF lbt.Timeout = 0 THEN DefaultTimeout ELSE lbt.Timeout))
    /\ [][/\ (lbt.pc = "deadline" /\ lbt'.pc = "read") =>
                lbt'.deadline = lbt.now + lbt.tmo
          /\ lbt.pc = "read" => lbt'.deadline = lbt.deadline
          /\ (lbt.pc = "read" /\ lbt.now >= lbt.deadline /\ lbt' # lbt) =>
                (lbt'.pc = "done" /\ lbt'.ret = LoopError("timeout"))
          /\ (lbt.pc = "read" /\ lbt'.pc = "done" /\ lbt'.ret.kind = "report") =>
                (lbt.now < lbt.deadline /\ lbt'.last.kind \in {"echoreply", "other"})
          /\ lbt.pc = "done" => lbt' = lbt]_vars

(* With Timeout zero a run that skipped packets ends with the timeout      *)
(* error three ticks after the deadline was set.                           *)
C29_Witness ==
    /\ lbt.pc = "done"
    /\ lbt.Timeout = 0
    /\ lbt.skipped
    /\ lbt.ret = LoopError("timeout")
    /\ lbt.deadline = lbt.now
    /\ lbt.now - lbt.begin >= DefaultTimeout

-----------------------------------------------------------------------------
(* The receiver with the load of the cookie and the match decision as      *)
(* separate steps, so that a Probe can store a cookie between them:        *)
(* maint.go:271-312 (atomic) and 99-140 (mutex).                           *)

(* Packets whose dispatch compares a cookie or takes the default case *)
MatchedKinds == {"echoreply", "err_icmp_echo", "err_icmp_other", "err_udp", "err_frag"}

(* One read: c.readFrom and icmp.ParseMessage (maint.go:224-269 and        *)
(* 62-97), whose failures go to writeReport as in ReadStep; the parse of   *)
(* an ICMP error, whose failures do the same after the load (282-296); and *)
(* for the packets that are matched, r.ICMP = m and                        *)
(* mcookie := load(t.cookie) (271-272 and 98-102).                         *)
MonReadLoad ==
    /\ mon.pc = "read"
    /\ \E pkt \in Arrivals :
          mon' = IF pkt.kind \in MatchedKinds
                 THEN [mon EXCEPT !.pc = "loaded", !.pkt = pkt, !.mcookie = cookie,
                                  !.r = [mon.r EXCEPT !.ICMP =
                                     IF pkt.kind = "echoreply" THEN "EchoReply"
                                                               ELSE "Error"]]
                 ELSE ReadStep(mon, pkt, t.mconn, goos, rev, cookie)
    /\ UNCHANGED <<call, lbt, rev, goos, t, sockOpen, cookie, emitReport, report,
                   initDone, prober, panicked>>

(* The dispatch of the packet with the value loaded, maint.go:274-312; in  *)
(* the mutex revision the comparison of an ICMP error is left to           *)
(* MonCompare, which reads t.cookie itself.                                *)
MonDispatch ==
    /\ mon.pc = "loaded"
    /\ mon' = Dispatch(mon, t.mconn, goos, rev, mon.mcookie)
    /\ UNCHANGED <<call, lbt, rev, goos, t, sockOpen, cookie, emitReport, report,
                   initDone, prober, panicked>>

InitSnapshot == Init /\ t.shape = "full"

NextSnapshot ==
    \/ MonReadLoad
    \/ MonDispatch
    \/ MonCompare
    \/ MonEmit
    \/ MonSend
    \/ Recv
    \/ ProbeCall
    \/ ProbeSetUDP
    \/ ProbeSetICMP
    \/ ProbeWrite

SpecSnapshot == InitSnapshot /\ [][NextSnapshot]_vars

(* The verdict of the match rules on the packet held, against cookie ck *)
VerdictBy(ck) ==
    IF mon.pkt.kind = "echoreply"
    THEN EchoReplyAccepted(t.mconn, goos, mon.pkt, ck)
    ELSE ErrorAccepted(t.mconn, goos, rev, mon.pkt, QuotedHeader(t.mconn, mon.pkt.kind), ck)

(* The step that decides whether the packet held goes to writeReport *)
Decided == mon.pc \in {"loaded", "cmp"} /\ mon'.pc \in {"emit", "read"}

(* Between the load and the decision the value loaded is the one held, and *)
(* the decision is the verdict against it.                                 *)
SnapshotDecides ==
    /\ (mon.pc \in {"loaded", "cmp"} /\ mon'.pc # "read") => mon'.mcookie = mon.mcookie
    /\ Decided => (mon'.pc = "emit" <=> VerdictBy(mon.mcookie))

(* C30: single cookie snapshot per packet, in both revisions.  The         *)
(* receiver loads the cookie once for a packet and decides the Echo Reply, *)
(* the inner-ICMP and the inner-UDP match against that value, whatever a   *)
(* Probe has stored since the load.                                        *)
C30_SingleSnapshot == [][SnapshotDecides]_vars

(* C30 on the revision of maint.go:219-314 alone, which compares mcookie   *)
(* in all three branches (276, 301, 307).                                  *)
C30_AtomicSingleSnapshot == [][rev = "atomic" => SnapshotDecides]_vars

(* maint.go:131 and 137 compare with t.cookie, not with mcookie: a UDP     *)
(* error that matched the cookie loaded for it is about to be refused      *)
(* because the next Probe has stored its cookie since.                     *)
C30_Witness ==
    /\ rev = "mutex"
    /\ mon.pc = "cmp"
    /\ mon.pkt.kind = "err_udp"
    /\ mon.mcookie # cookie
    /\ VerdictBy(mon.mcookie)
    /\ ~VerdictBy(cookie)

-----------------------------------------------------------------------------
(* C31: Probe is independent of the receiver (atomic revision).  At every  *)
(* position of Tester.Probe its next step can be taken whatever the        *)
(* receiver is doing: waiting in a read, holding a packet, or blocked in   *)
(* the send on the full report channel.  No step of Probe waits for the    *)
(* receiver or the channel; the only place where it can be held up is the  *)
(* socket write, which does not depend on the receiver either.             *)
C31_ProbeIndependence ==
    (rev = "atomic" /\ t.shape = "full" /\ ~panicked) =>
        /\ prober.pc = "idle" => ENABLED ProbeCall
        /\ prober.pc = "dst" => ENABLED ProbeSetUDP
        /\ prober.pc = "proto" => ENABLED ProbeSetICMP
        /\ prober.pc = "write" => ENABLED ProbeWrite

(* The second Probe has run to completion and stored its cookie after the  *)
(* receiver loaded the cookie of the first, while the receiver is blocked  *)
(* in the send of a second report on the full channel.                     *)
C31_Witness ==
    /\ rev = "atomic"
    /\ mon.pc = "send"
    /\ ChanFull(report)
    /\ prober.pc = "idle"
    /\ prober.ret = "ok"
    /\ prober.cm.Seq = 2
    /\ cookie = ProbeCookie(t.pconn, prober.cm)
    /\ mon.mcookie # cookie

-----------------------------------------------------------------------------
(* The receiver is blocked in t.report <- *r of writeReport, maint.go:319 *)
BlockedInSend == mon.pc = "send" /\ Len(report) >= ReportCap

(* C32: a blocked send is not cancelled by shutdown.  While the receiver   *)
(* is blocked in the send on the full report channel it cannot send, and   *)
(* a step that closes a socket (Close) or changes emitReport (StopReport,  *)
(* StartReport) leaves it blocked with its report unsent; it leaves the    *)
(* send only after a receive on Report() has taken the head of the         *)
(* channel.  So with no receive it never returns, also when the report it  *)
(* holds is the one of the fatal read error.                               *)
C32_BlockedSendNotCancelled ==
    /\ [](BlockedInSend => ~ENABLED MonSend)
    /\ [][/\ (BlockedInSend /\ (sockOpen' # sockOpen \/ emitReport' # emitReport))
                => (BlockedInSend' /\ mon' = mon /\ report' = report)
          /\ (BlockedInSend /\ ~BlockedInSend') => report' = Tail(report)
          /\ (BlockedInSend /\ report' # Tail(report)) => mon'.pc # "done"]_vars

(* After Close and StopReport the receiver is still blocked in the send of *)
(* the report of the fatal read error, after which it would return.        *)
C32_Witness ==
    /\ BlockedInSend
    /\ MaintClosed
    /\ ~sockOpen[t.pconn.sock]
    /\ emitReport = 0
    /\ mon.pkt.kind = "readerr_fatal"
    /\ ~mon.cont
    /\ mon.r.Error = "error"

-----------------------------------------------------------------------------
(* A constructed tester of either revision with the application switching  *)
(* emission on and off while probes are sent and packets arrive; the       *)
(* sockets stay open.                                                      *)
NextSwitch ==
    \/ MonRead
    \/ MonCompare
    \/ MonEmit
    \/ MonSend
    \/ Recv
    \/ StartReport
    \/ StopReport
    \/ ProbeCall
    \/ ProbeSetUDP
    \/ ProbeSetICMP
    \/ ProbeWrite

SpecSwitch == InitSnapshot /\ [][NextSwitch]_vars

(* A call of StartReport and a call of StopReport can each complete in the *)
(* current state, as the single store it is.                               *)
SwitchReturns ==
    (t.shape = "full" /\ ~panicked) => (ENABLED StartReport /\ ENABLED StopReport)

(* C33: StartReport and StopReport are non-blocking, in both revisions.    *)
(* Stated for the case the claim singles out: with the receiver blocked in *)
(* the send on the full report channel, which only a receive on Report()   *)
(* can end, each call can still complete without any other step.           *)
C33_SwitchNonBlocking == BlockedInSend => SwitchReturns

(* C33 on the revision of maint.go:316-336 alone, whose StartReport and    *)
(* StopReport are one atomic store each: in every state each call can      *)
(* complete without any other step.                                        *)
C33_AtomicSwitchNonBlocking == rev = "atomic" => SwitchReturns

(* StopReport has returned while the receiver is blocked in the send: the  *)
(* flag is off and the receiver still holds the report to send.            *)
C33_Witness ==
    /\ rev = "atomic"
    /\ BlockedInSend
    /\ emitReport = 0

-----------------------------------------------------------------------------
(* The receiver holds, on a raw maintenance endpoint, an ICMP error whose  *)
(* quoted ICMP message is not an Echo: `var cookie cookie` stays 0,        *)
(* maint.go:297-300.                                                       *)
RawNonEcho == t.mconn.rawSocket /\ mon.pkt.kind = "err_icmp_other"

(* The cookie the comparison of maint.go:301 (mcookie) or 131 (t.cookie)   *)
(* is made against                                                         *)
ComparedCookie == IF mon.pc = "cmp" THEN cookie ELSE mon.mcookie

(* C34 as stated: on a raw maintenance endpoint an ICMP error whose inner  *)
(* ICMP message is not an Echo goes to writeReport only while the current  *)
(* cookie is still zero; once a Probe has stored a cookie no such error is *)
(* emitted.                                                                *)
C34_ZeroCookieWindow ==
    [][(Decided /\ RawNonEcho /\ mon'.pc = "emit") => cookie = ZeroCookie]_vars

(* C34, amended: such an error goes to writeReport exactly when the cookie *)
(* compared for it is zero; the receiver loads the current cookie; the     *)
(* current cookie is zero, with the receiver started, only in the first    *)
(* Probe before its first store, and a cookie once stored is never zero    *)
(* again.  So an error whose cookie is loaded after a store is dropped,    *)
(* and one whose cookie was loaded before the first store can still be     *)
(* emitted after it.                                                       *)
C34_ZeroSnapshotWindow ==
    /\ []((initDone /\ cookie = ZeroCookie) =>
            (prober.pc = IF t.pconn.rawSocket THEN "proto" ELSE "dst"))
    /\ [][/\ cookie # ZeroCookie => cookie' # ZeroCookie
          /\ (mon.pc = "read" /\ mon'.pc = "loaded") => mon'.mcookie = cookie
          /\ (Decided /\ RawNonEcho) =>
                (mon'.pc = "emit" <=> ComparedCookie = ZeroCookie)]_vars

(* The error goes to writeReport on the zero cookie loaded for it, after   *)
(* the first Probe has stored its cookie.                                  *)
C34_Witness ==
    /\ RawNonEcho
    /\ mon.pc = "emit"
    /\ mon.mcookie = ZeroCookie
    /\ cookie = ProbeCookie(t.pconn, prober.cm)
    /\ cookie # ZeroCookie

-----------------------------------------------------------------------------
(* A tester that probes with UDP and receives on a raw ICMP endpoint *)
UDPTesterRaw == t.pconn.protocol = ianaProtocolUDP /\ t.mconn.rawSocket

EchoKinds == {"echoreply", "err_icmp_echo"}

(* C35: a UDP tester never reports Echo Replies on a raw maintenance       *)
(* endpoint.  Its current cookie is zero or has protocol byte 17, while    *)
(* the cookie computed for an Echo Reply, or for an ICMP error quoting an  *)
(* Echo, has the maintenance protocol 1 or 58 in that byte; so no such     *)
(* packet reaches writeReport and no Echo Reply report is on the channel.  *)
C35_UDPTesterNoEcho ==
    UDPTesterRaw =>
        /\ cookie = ZeroCookie \/ protocol(cookie) = ianaProtocolUDP
        /\ \A p \in Packets : p.kind \in EchoKinds =>
              /\ protocol(icmpCookie(t.mconn.protocol, p.x, p.y))
                    \in {ianaProtocolICMP, ianaProtocolIPv6ICMP}
              /\ icmpCookie(t.mconn.protocol, p.x, p.y) # cookie
        /\ mon.pc \in {"emit", "send"} => mon.pkt.kind \notin EchoKinds
        /\ \A i \in DOMAIN report : report[i].ICMP # "EchoReply"

(* C35 for the packets themselves: on a UDP tester with a raw maintenance  *)
(* endpoint the cookie is zero or has protocol byte 17, the cookie of an   *)
(* Echo Reply or of a quoted Echo never equals it, and no such packet      *)
(* reaches writeReport.  A report that carries an Echo Reply is the report *)
(* of a later packet that failed, and has Error set.                       *)
C35_UDPTesterNoEchoMatch ==
    UDPTesterRaw =>
        /\ cookie = ZeroCookie \/ protocol(cookie) = ianaProtocolUDP
        /\ \A p \in Packets : p.kind \in EchoKinds =>
              /\ protocol(icmpCookie(t.mconn.protocol, p.x, p.y))
                    \in {ianaProtocolICMP, ianaProtocolIPv6ICMP}
              /\ icmpCookie(t.mconn.protocol, p.x, p.y) # cookie
        /\ mon.pc \in {"emit", "send"} => mon.pkt.kind \notin EchoKinds
        /\ \A i \in DOMAIN report :
              report[i].ICMP = "EchoReply" => report[i].Error # Nil

(* The receiver of a UDP tester dropped an Echo Reply, and the report of   *)
(* the read error that followed, now on the channel, carries that Echo     *)
(* Reply: r is declared outside the loop, maint.go:220.                    *)
C35_Witness ==
    /\ UDPTesterRaw
    /\ protocol(cookie) = ianaProtocolUDP
    /\ mon.pkt.kind \in ReadErrors
    /\ Len(report) = 1
    /\ report[1].ICMP = "EchoReply"
    /\ report[1].Error = "error"

-----------------------------------------------------------------------------
(* Probe has returned an error: from SetMulticastInterface                 *)
(* (part_000:106-118) or from writeTo (92, 120)                            *)
ProbeFailed == prober.pc = "idle" /\ prober.ret = "error"

(* C36: a failed Probe still advances the cookie.  When Probe returns an   *)
(* error the current cookie is the fingerprint of the probe that failed,   *)
(* the step that returns the error does not store a cookie again, and      *)
(* nothing was written; so on a raw maintenance endpoint an Echo Reply, or *)
(* an error quoting an Echo or a UDP datagram, that answers a probe with   *)
(* another sequence number or port is refused against the current cookie.  *)
C36_FailedProbeAdvances ==
    /\ [](ProbeFailed =>
            /\ cookie = ProbeCookie(t.pconn, prober.cm)
            /\ prober.wire = NoWire
            /\ t.mconn.rawSocket =>
                  \A p \in Packets :
                     /\ (p.kind = "echoreply" /\ p.y # prober.cm.Seq) =>
                            ~EchoReplyAccepted(t.mconn, goos, p, cookie)
                     /\ (p.kind = "err_icmp_echo" /\ p.y # prober.cm.Seq) =>
                            ~InnerICMPAccepted(t.mconn, goos, p, cookie)
                     /\ (p.kind = "err_udp" /\ p.y # prober.cm.Port) =>
                            ~InnerUDPAccepted(p, cookie))
    /\ [][(prober.pc = "write" /\ ProbeFailed') => cookie' = cookie]_vars

(* The second Probe failed, and the receiver on a raw endpoint has since   *)
(* loaded the cookie and dropped the Echo Reply to the first probe.        *)
C36_Witness ==
    /\ ProbeFailed
    /\ prober.cm.Seq = 2
    /\ t.mconn.rawSocket
    /\ mon.pc = "read"
    /\ mon.pkt = Pkt("echoreply", Pid, 1)
    /\ mon.mcookie = cookie

-----------------------------------------------------------------------------
(* The probe endpoint is a datagram-oriented ICMP endpoint *)
DatagramICMP == ~t.pconn.rawSocket /\ t.pconn.protocol # ianaProtocolUDP

(* The UDP-form cookie of the Probe in progress, part_000:85 *)
UDPForm == udpCookie(ianaProtocolUDP, t.pconn.sport, prober.cm.Port)

(* The ICMP-form cookie of the Probe in progress, part_000:96 *)
ICMPForm == icmpCookie(t.pconn.protocol, prober.cm.ID, prober.cm.Seq)

(* C37: two cookie stores on datagram-ICMP probes, in both revisions.  On  *)
(* a non-raw ICMP probe endpoint a Probe stores udpCookie(17, local port,  *)
(* cm.Port) and then icmpCookie(protocol, cm.ID, cm.Seq); between the two  *)
(* stores the current cookie, which a receiver loads, is the UDP form, and *)
(* at the write it is the ICMP form.  On a raw ICMP endpoint Probe makes   *)
(* only the ICMP store and on a UDP endpoint only the UDP store; no other  *)
(* step changes the cookie.                                                *)
C37_TwoCookieStores ==
    /\ [](/\ (DatagramICMP /\ prober.pc = "proto") => cookie = UDPForm
          /\ prober.pc = "write" =>
                cookie = IF t.pconn.protocol = ianaProtocolUDP THEN UDPForm ELSE ICMPForm
          /\ t.pconn.rawSocket => prober.pc # "dst"
          /\ t.pconn.protocol = ianaProtocolUDP => prober.pc # "proto")
    /\ [][/\ (prober.pc = "idle" /\ prober' # prober) =>
                (cookie' = cookie
                   /\ prober'.pc = IF t.pconn.rawSocket THEN "proto" ELSE "dst")
          /\ (prober.pc = "dst" /\ prober' # prober) =>
                (cookie' = UDPForm
                   /\ prober'.pc = IF DatagramICMP THEN "proto" ELSE "write")
          /\ (prober.pc = "proto" /\ prober' # prober) =>
                (cookie' = ICMPForm /\ prober'.pc \in {"write", "idle"})
          /\ (prober.pc = "write" /\ prober' # prober) =>
                (cookie' = cookie /\ prober'.pc = "idle")
          /\ cookie' # cookie => prober' # prober
          /\ (mon.pc = "read" /\ mon'.pc = "loaded") => mon'.mcookie = cookie]_vars

(* Between the two stores of the second Probe on a datagram ICMP endpoint  *)
(* the receiver has loaded the UDP-form cookie for an Echo Reply.          *)
C37_Witness ==
    /\ DatagramICMP
    /\ prober.pc = "proto"
    /\ prober.cm.Seq = 2
    /\ mon.pc = "loaded"
    /\ mon.pkt.kind = "echoreply"
    /\ mon.mcookie = UDPForm
    /\ mon.mcookie # ICMPForm

-----------------------------------------------------------------------------
(* A Probe with the ControlMessage of the codec call on a raw IPv4 ICMP    *)
(* tester: the cookie it stores, the Echo Request it writes, and the Echo  *)
(* Reply that carries the identifier and sequence number of the request.   *)
TruncProbeConn == newProbeConn("ip4:icmp", 4, TRUE)
TruncCM == [ID |-> call.a, Seq |-> call.b, Port |-> DefaultPort]
TruncReply ==
    LET w == WireOf(TruncProbeConn, TruncCM, Payload)
    IN Pkt("echoreply", w.id, w.seq)

(* C38: cookie truncation is consistent.  icmpCookie and udpCookie depend  *)
(* only on the low 16 bits of their two words and the low 8 bits of the    *)
(* protocol: the cookie of the arguments equals the cookie of the          *)
(* arguments reduced mod 256 and mod 65536, and of any arguments with the  *)
(* same residues.  A Probe whose cm.ID or cm.Seq is above 65535 stores the *)
(* cookie of the 16-bit values its Echo Request carries, and the Echo      *)
(* Reply with those values matches it on a raw endpoint.                   *)
C38_CookieTruncation ==
    CodecCalled =>
       /\ call.out = CookieOf(call.op, call.protocol % Mask8,
                               call.a % Mask16, call.b % Mask16)
       /\ \A p \in CodecProtocols, a \in CodecWords, b \in CodecWords :
              (p % Mask8 = call.protocol % Mask8 /\ a % Mask16 = call.a % Mask16
                  /\ b % Mask16 = call.b % Mask16)
                 => CookieOf(call.op, p, a, b) = call.out
       /\ ProbeCookie(TruncProbeConn, TruncCM)
             = icmpCookie(ianaProtocolICMP, TruncReply.x, TruncReply.y)
       /\ TruncReply.x \in 0..(Mask16 - 1)
       /\ TruncReply.y \in 0..(Mask16 - 1)
       /\ EchoReplyAccepted(newMaintConn(4, TRUE), "darwin", TruncReply,
                            ProbeCookie(TruncProbeConn, TruncCM))

(* icmpCookie(257, 65536 + pid, 65535) is icmpCookie(1, pid, 65535), and   *)
(* the Echo Reply to such a probe carries pid.                             *)
C38_Witness ==
    /\ call.op = "icmpCookie"
    /\ call.protocol = Mask8 + ianaProtocolICMP
    /\ call.a = Mask16 + Pid
    /\ call.b = Mask16 - 1
    /\ call.out = icmpCookie(ianaProtocolICMP, Pid, Mask16 - 1)
    /\ TruncReply.x = Pid

-----------------------------------------------------------------------------
(* An iteration of the read loop on a packet of the given kind *)
LoopReadKind(kind) ==
    /\ lbt.pc = "read"
    /\ lbt' # lbt
    /\ lbt'.now = lbt.now
    /\ lbt'.last.kind = kind

(* C39: loopback ICMP-error acceptance.  A message read by Loopback.Run    *)
(* that is no Echo Reply ends the run with a report with ICMPError set,    *)
(* the peer and the round-trip time, if and only if the message it quotes  *)
(* parses as an ICMP message of the type of the Echo request sent,         *)
(* whatever the quoted identifier and sequence number and whoever the peer *)
(* is; otherwise the loop keeps reading.  A packet that icmp.ParseMessage  *)
(* refuses ends the run at once with that error.                           *)
C39_LoopbackErrorAccept ==
    [][/\ LoopReadKind("other") =>
             IF lbt'.last.inner = "echo"
             THEN /\ lbt'.pc = "done"
                  /\ lbt'.ret = LoopReport(PeerAddr(lbt.raw, lbt'.last.peer),
                                           lbt.now - lbt.begin, TRUE)
             ELSE /\ lbt'.pc = "read"
                  /\ lbt'.ret = lbt.ret
                  /\ lbt'.deadline = lbt.deadline
       /\ LoopReadKind("badicmp") =>
             /\ lbt'.pc = "done"
             /\ lbt'.ret = LoopError("parse")
             /\ ~lbt'.open]_vars

(* Run has returned a report with ICMPError for an error that quotes an    *)
(* Echo request with another identifier and sequence number than the one   *)
(* sent, from a peer that is not the target.                               *)
C39_Witness ==
    /\ lbt.pc = "done"
    /\ lbt.ret.kind = "report"
    /\ lbt.ret.ICMPError
    /\ lbt.last.kind = "other"
    /\ lbt.last.id # lbt.id
    /\ lbt.last.seq # lbt.seq
    /\ ~reachable(lbt.tgt, lbt.ret.Addr)

=============================================================================
